---- MODULE Spec2Model ----
(***************************************************************************)
(* prompt-injection-scanner: the rule catalog, the scan engine             *)
(* (scanPrompt, getRules), the score (calculateScore) and the grade        *)
(* (scoreGrade).                                                           *)
(*                                                                         *)
(* A text is a sequence of one-character strings.  Offsets are JavaScript  *)
(* offsets (0-based): the character at offset i is text[i + 1].            *)
(***************************************************************************)
EXTENDS Integers, Sequences, FiniteSets, TLC

VARIABLES
  text,           \* the prompt text whose scans are observed
  findings,       \* what the latest scanPrompt(text) returned
  firstFindings,  \* what the first scanPrompt(text) returned
  scans,          \* how many times scanPrompt(text) has been called, up to MaxScans
  interleaved,    \* whether another text was scanned after the first scanPrompt(text)
  invoked,        \* <<r, b>>: the test of rule r ran in the latest scanPrompt(text)
                  \* and returned b
  hits,           \* hits[r][p]: what the search of pattern p of rule r returned in it
  lastIndex,      \* the lastIndex property of every catalog RegExp object
  rules,          \* the metadata properties of the catalog's rule objects
  returned,       \* the array the caller holds from the latest getRules()
  mutated,        \* whether the caller has overwritten a property of a summary
  lastOp,         \* the operation that ran last
  flist,          \* a findings list handed to calculateScore
  score,          \* calculateScore(flist)
  prevScore,      \* the score of the list before the latest finding was added
  graded,         \* the latest scoreGrade call: its argument and its result
  prevGraded,     \* the scoreGrade call before it
  removed,        \* the rule left out of the rules array in the latest reduced scan
  reducedFindings, \* what the scan of text with that array returned
  held, \* an earlier result list of the caller, after the caller wrote to it
  faulty,         \* the rule whose test throws in the latest scan with a throwing test
  outcome, \* how that scan ended, as its caller sees it
  catalog,        \* the rules array of the loaded module
  loadOutcome,    \* how loading the module ended: "loaded" or "rejected"
  catalogFindings, \* the list returned by the latest scan over catalog
  cliPc,          \* where the command-line program is: "idle", "dir", "files", "scan",
                  \* "report", and "helped", "failed" or "exited" once the process has ended
  disk,           \* what each path names on the disk
  args,           \* what parseArgs returned: help, json, text, dir, files
  loadedFiles,    \* how many of args.files loadFile has been called on
  output,         \* what the run printed: the help, a loader's message or the report
  argsSeverity,   \* args.severity
  minSeverity,    \* severityOrder[args.severity] || 0
  sources,        \* the sources to scan, each a name and a content
  allResults,     \* the result recorded for each source scanned so far
  totalFindings,  \* the findings kept so far
  criticalCount,  \* the critical findings kept so far
  highCount,      \* the high findings kept so far
  exitCode, \* the code the process exited with
  procs           \* the scans under way side by side, each with its place and its locals

vars == <<text, findings, firstFindings, scans, interleaved, invoked, hits, lastIndex,
          rules, returned, mutated, lastOp, flist, score, prevScore, graded, prevGraded,
          removed, reducedFindings,
          held,
          faulty, outcome,
          catalog, loadOutcome, catalogFindings,
          cliPc, disk, args, loadedFiles, output,
          argsSeverity, minSeverity, sources, allResults, totalFindings,
          criticalCount, highCount, exitCode,
          procs>>

-----------------------------------------------------------------------------
(* Characters *)

LowerSeq == <<"a","b","c","d","e","f","g","h","i","j","k","l","m","n","o","p","q","r","s","t","u","v","w","x","y","z">>
UpperSeq == <<"A","B","C","D","E","F","G","H","I","J","K","L","M","N","O","P","Q","R","S","T","U","V","W","X","Y","Z">>
Lower == {LowerSeq[j] : j \in 1..Len(LowerSeq)}
Upper == {UpperSeq[j] : j \in 1..Len(UpperSeq)}
Digits == {"0","1","2","3","4","5","6","7","8","9"}
\* \w
WordChars == Lower \cup Upper \cup Digits \cup {"_"}
\* \s (the ASCII part)
WhiteSpace == {" ", "\t", "\n", "\r", "\f"}
\* what . does not match
LineTerminators == {"\n", "\r"}

toUpperCase(c) == IF c \in Lower THEN UpperSeq[CHOOSE j \in 1..Len(LowerSeq) : LowerSeq[j] = c] ELSE c
toLowerCase(c) == IF c \in Upper THEN LowerSeq[CHOOSE j \in 1..Len(UpperSeq) : UpperSeq[j] = c] ELSE c

\* String.prototype.substring(from, to) for 0 <= from
substring(s, from, to) == SubSeq(s, from + 1, IF to < Len(s) THEN to ELSE Len(s))

\* String.prototype.startsWith
startsWith(s, prefix) == Len(s) >= Len(prefix) /\ SubSeq(s, 1, Len(prefix)) = prefix

\* String.prototype.split(sep) for a one-character separator: the pieces between
\* the separators, so an input with k separators gives k + 1 pieces
RECURSIVE splitFrom(_, _, _, _)
splitFrom(s, sep, j, piece) ==
  IF j > Len(s) THEN <<piece>>
  ELSE IF s[j] = sep THEN <<piece>> \o splitFrom(s, sep, j + 1, <<>>)
  ELSE splitFrom(s, sep, j + 1, Append(piece, s[j]))

split(s, sep) == splitFrom(s, sep, 1, <<>>)

-----------------------------------------------------------------------------
(* Regular expressions: the terms the catalog's RegExp literals are written *)
(* in, and the backtracking matcher of the RegExp built-ins.                *)

Set(s) == [k |-> "set", neg |-> FALSE, s |-> s]
NotSet(s) == [k |-> "set", neg |-> TRUE, s |-> s]
Cat(xs) == [k |-> "cat", xs |-> xs]
Alt(xs) == [k |-> "alt", xs |-> xs]
\* x{lo,hi}, greedy; hi = -1 is no upper limit
Rep(x, lo, hi) == [k |-> "rep", x |-> x, lo |-> lo, hi |-> hi]
Opt(x) == Rep(x, 0, 1)
Star(x) == Rep(x, 0, -1)
Plus(x) == Rep(x, 1, -1)
AtLeast(x, n) == Rep(x, n, -1)
\* \b
WB == [k |-> "wb"]
\* a literal word, and the same under the i flag
Lit(w) == Cat([j \in 1..Len(w) |-> Set({w[j]})])
LitI(w) == Cat([j \in 1..Len(w) |-> Set({toLowerCase(w[j]), toUpperCase(w[j])})])

IsWordAt(t, j) == j >= 1 /\ j <= Len(t) /\ t[j] \in WordChars

\* Ends(re, t, i): the offsets at which a match of re starting at offset i of t
\* can end, in the order the backtracking matcher tries them (greedy quantifiers
\* take more first, alternatives are tried left to right).  The match the
\* matcher reports at i ends at the first of them.
RECURSIVE Ends(_, _, _), CatEnds(_, _, _, _), AltEnds(_, _, _, _), RepEnds(_, _, _, _)

Ends(re, t, i) ==
  CASE re.k = "set" -> IF i < Len(t) /\ ((t[i + 1] \in re.s) # re.neg) THEN <<i + 1>> ELSE <<>>
    [] re.k = "wb" -> IF IsWordAt(t, i) # IsWordAt(t, i + 1) THEN <<i>> ELSE <<>>
    [] re.k = "cat" -> CatEnds(re.xs, 1, t, i)
    [] re.k = "alt" -> AltEnds(re.xs, 1, t, i)
    [] re.k = "rep" -> RepEnds(re, 0, t, i)

CatEnds(xs, j, t, i) ==
  IF j > Len(xs) THEN <<i>>
  ELSE LET es == Ends(xs[j], t, i)
           RECURSIVE Each(_)
           Each(n) == IF n > Len(es) THEN <<>>
                      ELSE CatEnds(xs, j + 1, t, es[n]) \o Each(n + 1)
       IN Each(1)

AltEnds(xs, j, t, i) ==
  IF j > Len(xs) THEN <<>> ELSE Ends(xs[j], t, i) \o AltEnds(xs, j + 1, t, i)

RepEnds(re, count, t, i) ==
  LET es == IF re.hi < 0 \/ count < re.hi THEN Ends(re.x, t, i) ELSE <<>>
      RECURSIVE Each(_)
      Each(n) == IF n > Len(es) THEN <<>>
                 ELSE (IF es[n] > i THEN RepEnds(re, count + 1, t, es[n]) ELSE <<>>)
                      \o Each(n + 1)
  IN Each(1) \o (IF count >= re.lo THEN <<i>> ELSE <<>>)

NoMatch == [index |-> -1, end |-> -1]

\* the first match that starts at an offset in lo..hi, the offsets tried from
\* the left: the left half of the range before the right half. Each attempt is
\* made once: its result is bound as the one element of a set.
RECURSIVE firstMatch(_, _, _, _)
firstMatch(re, t, lo, hi) ==
  IF lo = hi
  THEN CHOOSE m \in {IF es # <<>> THEN [index |-> lo, end |-> es[1]] ELSE NoMatch :
                       es \in {Ends(re, t, lo)}} : TRUE
  ELSE CHOOSE m \in {IF left # NoMatch THEN left
                       ELSE firstMatch(re, t, (lo + hi) \div 2 + 1, hi) :
                       left \in {firstMatch(re, t, lo, (lo + hi) \div 2)}} : TRUE

\* RegExpBuiltinExec of a global RegExp whose lastIndex is li: the first match
\* at an offset >= li, as its start and end offsets
exec(re, t, li) ==
  IF li > Len(t) THEN NoMatch ELSE firstMatch(re, t, li, Len(t))

\* String.prototype.matchAll on a global RegExp whose lastIndex is li, spread
\* into an array: matchAll works on a clone of the RegExp that starts at li, and
\* takes the matches left to right, each search starting where the match before
\* it ended (one further after an empty match)
RECURSIVE matchAll(_, _, _)
matchAll(re, t, li) ==
  LET m == exec(re, t, li)
  IN IF m = NoMatch THEN <<>>
     ELSE <<m>> \o matchAll(re, t, IF m.end = m.index THEN m.end + 1 ELSE m.end)

\* RegExp.prototype.test of a RegExp without the g flag: lastIndex plays no part
regexTest(re, t) == exec(re, t, 0) # NoMatch

-----------------------------------------------------------------------------
(* The rule catalog: const rules = [...]                                    *)

\* SDE-001 patterns
SDE001_patterns ==
  << \* /(?:api[_-]?key|api[_-]?token|access[_-]?token|secret[_-]?key|auth[_-]?token)\s*[:=]\s*\S+/gi
     Cat(<<Alt(<<Cat(<<LitI(<<"a","p","i">>), Opt(Set({"_","-"})), LitI(<<"k","e","y">>)>>), Cat(<<LitI(<<"a","p","i">>), Opt(Set({"_","-"})), LitI(<<"t","o","k","e","n">>)>>), Cat(<<LitI(<<"a","c","c","e","s","s">>), Opt(Set({"_","-"})), LitI(<<"t","o","k","e","n">>)>>), Cat(<<LitI(<<"s","e","c","r","e","t">>), Opt(Set({"_","-"})), LitI(<<"k","e","y">>)>>), Cat(<<LitI(<<"a","u","t","h">>), Opt(Set({"_","-"})), LitI(<<"t","o","k","e","n">>)>>)>>), Star(Set(WhiteSpace)), Set({":","="}), Star(Set(WhiteSpace)), Plus(NotSet(WhiteSpace))>>),
     \* /\b(?:sk|pk|ak|rk)-[a-zA-Z0-9]{20,}\b/g
     Cat(<<WB, Alt(<<Lit(<<"s","k">>), Lit(<<"p","k">>), Lit(<<"a","k">>), Lit(<<"r","k">>)>>), Lit(<<"-">>), AtLeast(Set(Lower \cup Upper \cup Digits), 20), WB>>),
     \* /\b(?:ghp|gho|ghu|ghs|ghr)_[a-zA-Z0-9]{36,}\b/g
     Cat(<<WB, Alt(<<Lit(<<"g","h","p">>), Lit(<<"g","h","o">>), Lit(<<"g","h","u">>), Lit(<<"g","h","s">>), Lit(<<"g","h","r">>)>>), Lit(<<"_">>), AtLeast(Set(Lower \cup Upper \cup Digits), 36), WB>>),
     \* /\bAIza[a-zA-Z0-9_-]{35}\b/g
     Cat(<<WB, Lit(<<"A","I","z","a">>), Rep(Set(Lower \cup Upper \cup Digits \cup {"_","-"}), 35, 35), WB>>),
     \* /\bxox[bpsa]-[a-zA-Z0-9-]+/g
     Cat(<<WB, Lit(<<"x","o","x">>), Set({"b","p","s","a"}), Lit(<<"-">>), Plus(Set(Lower \cup Upper \cup Digits \cup {"-"}))>>),
     \* /\bBearer\s+[a-zA-Z0-9._-]{20,}\b/g
     Cat(<<WB, Lit(<<"B","e","a","r","e","r">>), Plus(Set(WhiteSpace)), AtLeast(Set(Lower \cup Upper \cup Digits \cup {".","_","-"}), 20), WB>>) >>

\* SDE-002 patterns
SDE002_patterns ==
  << \* /(?:password|passwd|pwd)\s*[:=]\s*\S+/gi
     Cat(<<Alt(<<LitI(<<"p","a","s","s","w","o","r","d">>), LitI(<<"p","a","s","s","w","d">>), LitI(<<"p","w","d">>)>>), Star(Set(WhiteSpace)), Set({":","="}), Star(Set(WhiteSpace)), Plus(NotSet(WhiteSpace))>>),
     \* /(?:username|user)\s*[:=]\s*\S+.*(?:password|passwd|pwd)\s*[:=]\s*\S+/gi
     Cat(<<Alt(<<LitI(<<"u","s","e","r","n","a","m","e">>), LitI(<<"u","s","e","r">>)>>), Star(Set(WhiteSpace)), Set({":","="}), Star(Set(WhiteSpace)), Plus(NotSet(WhiteSpace)), Star(NotSet(LineTerminators)), Alt(<<LitI(<<"p","a","s","s","w","o","r","d">>), LitI(<<"p","a","s","s","w","d">>), LitI(<<"p","w","d">>)>>), Star(Set(WhiteSpace)), Set({":","="}), Star(Set(WhiteSpace)), Plus(NotSet(WhiteSpace))>>) >>

\* SDE-003 patterns
SDE003_patterns ==
  << \* /\b\d{3}-\d{2}-\d{4}\b/g
     Cat(<<WB, Rep(Set(Digits), 3, 3), Lit(<<"-">>), Rep(Set(Digits), 2, 2), Lit(<<"-">>), Rep(Set(Digits), 4, 4), WB>>),
     \* /\b\d{4}[\s-]?\d{4}[\s-]?\d{4}[\s-]?\d{4}\b/g
     Cat(<<WB, Rep(Set(Digits), 4, 4), Opt(Set(WhiteSpace \cup {"-"})), Rep(Set(Digits), 4, 4), Opt(Set(WhiteSpace \cup {"-"})), Rep(Set(Digits), 4, 4), Opt(Set(WhiteSpace \cup {"-"})), Rep(Set(Digits), 4, 4), WB>>),
     \* /(?:internal|private|confidential|secret)\s+(?:email|phone|address|ssn|social)/gi
     Cat(<<Alt(<<LitI(<<"i","n","t","e","r","n","a","l">>), LitI(<<"p","r","i","v","a","t","e">>), LitI(<<"c","o","n","f","i","d","e","n","t","i","a","l">>), LitI(<<"s","e","c","r","e","t">>)>>), Plus(Set(WhiteSpace)), Alt(<<LitI(<<"e","m","a","i","l">>), LitI(<<"p","h","o","n","e">>), LitI(<<"a","d","d","r","e","s","s">>), LitI(<<"s","s","n">>), LitI(<<"s","o","c","i","a","l">>)>>)>>) >>

\* SDE-004 patterns
SDE004_patterns ==
  << \* /https?:\/\/(?:localhost|127\.0\.0\.1|10\.\d+\.\d+\.\d+|172\.(?:1[6-9]|2\d|3[01])\.\d+\.\d+|192\.168\.\d+\.\d+)[^\s]*/gi
     Cat(<<LitI(<<"h","t","t","p">>), Opt(LitI(<<"s">>)), Lit(<<":","/","/">>), Alt(<<LitI(<<"l","o","c","a","l","h","o","s","t">>), Lit(<<"1","2","7",".","0",".","0",".","1">>), Cat(<<Lit(<<"1","0",".">>), Plus(Set(Digits)), Lit(<<".">>), Plus(Set(Digits)), Lit(<<".">>), Plus(Set(Digits))>>), Cat(<<Lit(<<"1","7","2",".">>), Alt(<<Cat(<<Lit(<<"1">>), Set({"6","7","8","9"})>>), Cat(<<Lit(<<"2">>), Set(Digits)>>), Cat(<<Lit(<<"3">>), Set({"0","1"})>>)>>), Lit(<<".">>), Plus(Set(Digits)), Lit(<<".">>), Plus(Set(Digits))>>), Cat(<<Lit(<<"1","9","2",".","1","6","8",".">>), Plus(Set(Digits)), Lit(<<".">>), Plus(Set(Digits))>>)>>), Star(NotSet(WhiteSpace))>>),
     \* /https?:\/\/[^\s]*(?:internal|admin|staging|dev|api-internal)[^\s]*/gi
     Cat(<<LitI(<<"h","t","t","p">>), Opt(LitI(<<"s">>)), Lit(<<":","/","/">>), Star(NotSet(WhiteSpace)), Alt(<<LitI(<<"i","n","t","e","r","n","a","l">>), LitI(<<"a","d","m","i","n">>), LitI(<<"s","t","a","g","i","n","g">>), LitI(<<"d","e","v">>), LitI(<<"a","p","i","-","i","n","t","e","r","n","a","l">>)>>), Star(NotSet(WhiteSpace))>>),
     \* /(?:endpoint|url|api)\s*[:=]\s*https?:\/\/[^\s]+/gi
     Cat(<<Alt(<<LitI(<<"e","n","d","p","o","i","n","t">>), LitI(<<"u","r","l">>), LitI(<<"a","p","i">>)>>), Star(Set(WhiteSpace)), Set({":","="}), Star(Set(WhiteSpace)), LitI(<<"h","t","t","p">>), Opt(LitI(<<"s">>)), Lit(<<":","/","/">>), Plus(NotSet(WhiteSpace))>>) >>

\* SDE-005 patterns
SDE005_patterns ==
  << \* /(?:mongodb|postgres|mysql|redis|mssql):\/\/[^\s]+/gi
     Cat(<<Alt(<<LitI(<<"m","o","n","g","o","d","b">>), LitI(<<"p","o","s","t","g","r","e","s">>), LitI(<<"m","y","s","q","l">>), LitI(<<"r","e","d","i","s">>), LitI(<<"m","s","s","q","l">>)>>), Lit(<<":","/","/">>), Plus(NotSet(WhiteSpace))>>),
     \* /(?:DATABASE_URL|DB_HOST|DB_PASSWORD|MONGO_URI|REDIS_URL)\s*[:=]\s*\S+/gi
     Cat(<<Alt(<<LitI(<<"d","a","t","a","b","a","s","e","_","u","r","l">>), LitI(<<"d","b","_","h","o","s","t">>), LitI(<<"d","b","_","p","a","s","s","w","o","r","d">>), LitI(<<"m","o","n","g","o","_","u","r","i">>), LitI(<<"r","e","d","i","s","_","u","r","l">>)>>), Star(Set(WhiteSpace)), Set({":","="}), Star(Set(WhiteSpace)), Plus(NotSet(WhiteSpace))>>) >>

\* AGN-001 patterns
AGN001_patterns ==
  << \* /(?:you\s+(?:can|have|are able to)\s+(?:access|use|call|invoke|execute)\s+(?:any|all)\s+(?:tool|function|api|endpoint))/gi
     Cat(<<LitI(<<"y","o","u">>), Plus(Set(WhiteSpace)), Alt(<<LitI(<<"c","a","n">>), LitI(<<"h","a","v","e">>), LitI(<<"a","r","e"," ","a","b","l","e"," ","t","o">>)>>), Plus(Set(WhiteSpace)), Alt(<<LitI(<<"a","c","c","e","s","s">>), LitI(<<"u","s","e">>), LitI(<<"c","a","l","l">>), LitI(<<"i","n","v","o","k","e">>), LitI(<<"e","x","e","c","u","t","e">>)>>), Plus(Set(WhiteSpace)), Alt(<<LitI(<<"a","n","y">>), LitI(<<"a","l","l">>)>>), Plus(Set(WhiteSpace)), Alt(<<LitI(<<"t","o","o","l">>), LitI(<<"f","u","n","c","t","i","o","n">>), LitI(<<"a","p","i">>), LitI(<<"e","n","d","p","o","i","n","t">>)>>)>>),
     \* /(?:full\s+access|admin\s+access|unrestricted\s+access)/gi
     Alt(<<Cat(<<LitI(<<"f","u","l","l">>), Plus(Set(WhiteSpace)), LitI(<<"a","c","c","e","s","s">>)>>), Cat(<<LitI(<<"a","d","m","i","n">>), Plus(Set(WhiteSpace)), LitI(<<"a","c","c","e","s","s">>)>>), Cat(<<LitI(<<"u","n","r","e","s","t","r","i","c","t","e","d">>), Plus(Set(WhiteSpace)), LitI(<<"a","c","c","e","s","s">>)>>)>>) >>

\* OUT-002 patterns
OUT002_patterns ==
  << \* /(?:execute|run|eval)\s+(?:the\s+)?(?:code|script|command|query)/gi
     Cat(<<Alt(<<LitI(<<"e","x","e","c","u","t","e">>), LitI(<<"r","u","n">>), LitI(<<"e","v","a","l">>)>>), Plus(Set(WhiteSpace)), Opt(Cat(<<LitI(<<"t","h","e">>), Plus(Set(WhiteSpace))>>)), Alt(<<LitI(<<"c","o","d","e">>), LitI(<<"s","c","r","i","p","t">>), LitI(<<"c","o","m","m","a","n","d">>), LitI(<<"q","u","e","r","y">>)>>)>>),
     \* /(?:auto.?run|auto.?execut|dynamic.?execut)/gi
     Alt(<<Cat(<<LitI(<<"a","u","t","o">>), Opt(NotSet(LineTerminators)), LitI(<<"r","u","n">>)>>), Cat(<<LitI(<<"a","u","t","o">>), Opt(NotSet(LineTerminators)), LitI(<<"e","x","e","c","u","t">>)>>), Cat(<<LitI(<<"d","y","n","a","m","i","c">>), Opt(NotSet(LineTerminators)), LitI(<<"e","x","e","c","u","t">>)>>)>>) >>

\* ATK-002 patterns
ATK002_patterns ==
  << \* /(?:you (?:can|may) (?:also |sometimes )?(?:act|respond|behave)\s+as)/gi
     Cat(<<LitI(<<"y","o","u"," ">>), Alt(<<LitI(<<"c","a","n">>), LitI(<<"m","a","y">>)>>), Lit(<<" ">>), Opt(Alt(<<LitI(<<"a","l","s","o"," ">>), LitI(<<"s","o","m","e","t","i","m","e","s"," ">>)>>)), Alt(<<LitI(<<"a","c","t">>), LitI(<<"r","e","s","p","o","n","d">>), LitI(<<"b","e","h","a","v","e">>)>>), Plus(Set(WhiteSpace)), LitI(<<"a","s">>)>>),
     \* /(?:mode|persona|character|role)\s*[:=]/gi
     Cat(<<Alt(<<LitI(<<"m","o","d","e">>), LitI(<<"p","e","r","s","o","n","a">>), LitI(<<"c","h","a","r","a","c","t","e","r">>), LitI(<<"r","o","l","e">>)>>), Star(Set(WhiteSpace)), Set({":","="})>>),
     \* /(?:when in .* mode|switch to .* mode|if .* mode)/gi
     Alt(<<Cat(<<LitI(<<"w","h","e","n"," ","i","n"," ">>), Star(NotSet(LineTerminators)), LitI(<<" ","m","o","d","e">>)>>), Cat(<<LitI(<<"s","w","i","t","c","h"," ","t","o"," ">>), Star(NotSet(LineTerminators)), LitI(<<" ","m","o","d","e">>)>>), Cat(<<LitI(<<"i","f"," ">>), Star(NotSet(LineTerminators)), LitI(<<" ","m","o","d","e">>)>>)>>) >>

\* ATK-003 patterns
ATK003_patterns ==
  << \* /(?:respond|format|output)\s+(?:in|using|with)\s+(?:markdown|html|rich text)/gi
     Cat(<<Alt(<<LitI(<<"r","e","s","p","o","n","d">>), LitI(<<"f","o","r","m","a","t">>), LitI(<<"o","u","t","p","u","t">>)>>), Plus(Set(WhiteSpace)), Alt(<<LitI(<<"i","n">>), LitI(<<"u","s","i","n","g">>), LitI(<<"w","i","t","h">>)>>), Plus(Set(WhiteSpace)), Alt(<<LitI(<<"m","a","r","k","d","o","w","n">>), LitI(<<"h","t","m","l">>), LitI(<<"r","i","c","h"," ","t","e","x","t">>)>>)>>),
     \* /(?:include|use|render)\s+(?:images?|links?|html|markdown)/gi
     Cat(<<Alt(<<LitI(<<"i","n","c","l","u","d","e">>), LitI(<<"u","s","e">>), LitI(<<"r","e","n","d","e","r">>)>>), Plus(Set(WhiteSpace)), Alt(<<Cat(<<LitI(<<"i","m","a","g","e">>), Opt(LitI(<<"s">>))>>), Cat(<<LitI(<<"l","i","n","k">>), Opt(LitI(<<"s">>))>>), LitI(<<"h","t","m","l">>), LitI(<<"m","a","r","k","d","o","w","n">>)>>)>>) >>

\* rule.patterns of a rule; a rule without the property has no pattern to loop over
rulePatterns ==
  << SDE001_patterns, SDE002_patterns, SDE003_patterns, SDE004_patterns, SDE005_patterns,
     <<>>, <<>>, <<>>, AGN001_patterns, <<>>,
     <<>>, OUT002_patterns, <<>>, ATK002_patterns, ATK003_patterns >>

\* SDE-003 test: an email address that is not a public-facing one
SDE003_emailPattern ==
  \* /\b[A-Za-z0-9._%+-]+@[A-Za-z0-9.-]+\.[A-Z|a-z]{2,}\b/g
  Cat(<<WB, Plus(Set(Upper \cup Lower \cup Digits \cup {".","_","%","+","-"})), Lit(<<"@">>), Plus(Set(Upper \cup Lower \cup Digits \cup {".","-"})), Lit(<<".">>), AtLeast(Set(Upper \cup Lower \cup {"|"}), 2), WB>>)

SDE003_publicPrefixes ==
  { <<"s","u","p","p","o","r","t","@">>, <<"i","n","f","o","@">>, <<"h","e","l","p","@">>,
    <<"c","o","n","t","a","c","t","@">>, <<"s","a","l","e","s","@">>,
    <<"n","o","r","e","p","l","y","@">>, <<"n","o","-","r","e","p","l","y","@">> }

SDE003_test(t) ==
  LET emails == matchAll(SDE003_emailPattern, t, 0)
      email(m) == [j \in 1..(m.end - m.index) |-> toLowerCase(t[m.index + j])]
      sensitiveEmails == {n \in 1..Len(emails) :
                            ~ \E p \in SDE003_publicPrefixes : startsWith(email(emails[n]), p)}
  IN Cardinality(sensitiveEmails) > 0

\* INJ-001 test: none of the defense phrasings occurs
INJ001_defensePatterns ==
  << \* /(?:ignore|disregard|refuse|reject|do not follow)\s+(?:any\s+)?(?:user\s+)?(?:instructions?|requests?|attempts?|commands?)/i
     Cat(<<Alt(<<LitI(<<"i","g","n","o","r","e">>), LitI(<<"d","i","s","r","e","g","a","r","d">>), LitI(<<"r","e","f","u","s","e">>), LitI(<<"r","e","j","e","c","t">>), LitI(<<"d","o"," ","n","o","t"," ","f","o","l","l","o","w">>)>>), Plus(Set(WhiteSpace)), Opt(Cat(<<LitI(<<"a","n","y">>), Plus(Set(WhiteSpace))>>)), Opt(Cat(<<LitI(<<"u","s","e","r">>), Plus(Set(WhiteSpace))>>)), Alt(<<Cat(<<LitI(<<"i","n","s","t","r","u","c","t","i","o","n">>), Opt(LitI(<<"s">>))>>), Cat(<<LitI(<<"r","e","q","u","e","s","t">>), Opt(LitI(<<"s">>))>>), Cat(<<LitI(<<"a","t","t","e","m","p","t">>), Opt(LitI(<<"s">>))>>), Cat(<<LitI(<<"c","o","m","m","a","n","d">>), Opt(LitI(<<"s">>))>>)>>)>>),
     \* /(?:never|do not|don't)\s+(?:reveal|share|disclose|show|output)\s+(?:your\s+)?(?:system\s+)?(?:prompt|instructions?|rules?)/i
     Cat(<<Alt(<<LitI(<<"n","e","v","e","r">>), LitI(<<"d","o"," ","n","o","t">>), LitI(<<"d","o","n","'","t">>)>>), Plus(Set(WhiteSpace)), Alt(<<LitI(<<"r","e","v","e","a","l">>), LitI(<<"s","h","a","r","e">>), LitI(<<"d","i","s","c","l","o","s","e">>), LitI(<<"s","h","o","w">>), LitI(<<"o","u","t","p","u","t">>)>>), Plus(Set(WhiteSpace)), Opt(Cat(<<LitI(<<"y","o","u","r">>), Plus(Set(WhiteSpace))>>)), Opt(Cat(<<LitI(<<"s","y","s","t","e","m">>), Plus(Set(WhiteSpace))>>)), Alt(<<LitI(<<"p","r","o","m","p","t">>), Cat(<<LitI(<<"i","n","s","t","r","u","c","t","i","o","n">>), Opt(LitI(<<"s">>))>>), Cat(<<LitI(<<"r","u","l","e">>), Opt(LitI(<<"s">>))>>)>>)>>),
     \* /(?:jailbreak|injection|bypass|override|role.?play)/i
     Alt(<<LitI(<<"j","a","i","l","b","r","e","a","k">>), LitI(<<"i","n","j","e","c","t","i","o","n">>), LitI(<<"b","y","p","a","s","s">>), LitI(<<"o","v","e","r","r","i","d","e">>), Cat(<<LitI(<<"r","o","l","e">>), Opt(NotSet(LineTerminators)), LitI(<<"p","l","a","y">>)>>)>>),
     \* /(?:maintain|stay in|keep)\s+(?:your\s+)?(?:role|character|persona)/i
     Cat(<<Alt(<<LitI(<<"m","a","i","n","t","a","i","n">>), LitI(<<"s","t","a","y"," ","i","n">>), LitI(<<"k","e","e","p">>)>>), Plus(Set(WhiteSpace)), Opt(Cat(<<LitI(<<"y","o","u","r">>), Plus(Set(WhiteSpace))>>)), Alt(<<LitI(<<"r","o","l","e">>), LitI(<<"c","h","a","r","a","c","t","e","r">>), LitI(<<"p","e","r","s","o","n","a">>)>>)>>),
     \* /(?:if|when)\s+(?:the\s+)?user\s+(?:tries?|attempts?|asks?)\s+to/i
     Cat(<<Alt(<<LitI(<<"i","f">>), LitI(<<"w","h","e","n">>)>>), Plus(Set(WhiteSpace)), Opt(Cat(<<LitI(<<"t","h","e">>), Plus(Set(WhiteSpace))>>)), LitI(<<"u","s","e","r">>), Plus(Set(WhiteSpace)), Alt(<<Cat(<<LitI(<<"t","r","i","e">>), Opt(LitI(<<"s">>))>>), Cat(<<LitI(<<"a","t","t","e","m","p","t">>), Opt(LitI(<<"s">>))>>), Cat(<<LitI(<<"a","s","k">>), Opt(LitI(<<"s">>))>>)>>), Plus(Set(WhiteSpace)), LitI(<<"t","o">>)>>) >>

INJ001_test(t) ==
  ~ \E n \in 1..Len(INJ001_defensePatterns) : regexTest(INJ001_defensePatterns[n], t)

\* INJ-002 test
INJ002_hasSecrets(t) ==
  \* /(?:confidential|secret|internal|private|do not share|never share|never reveal)/i
  regexTest(Alt(<<LitI(<<"c","o","n","f","i","d","e","n","t","i","a","l">>), LitI(<<"s","e","c","r","e","t">>), LitI(<<"i","n","t","e","r","n","a","l">>), LitI(<<"p","r","i","v","a","t","e">>), LitI(<<"d","o"," ","n","o","t"," ","s","h","a","r","e">>), LitI(<<"n","e","v","e","r"," ","s","h","a","r","e">>), LitI(<<"n","e","v","e","r"," ","r","e","v","e","a","l">>)>>), t)

INJ002_hasOnlyInstructionDefense(t) ==
  \* /(?:never|do not|don't)\s+(?:share|reveal|disclose|tell|show)/i
  regexTest(Cat(<<Alt(<<LitI(<<"n","e","v","e","r">>), LitI(<<"d","o"," ","n","o","t">>), LitI(<<"d","o","n","'","t">>)>>), Plus(Set(WhiteSpace)), Alt(<<LitI(<<"s","h","a","r","e">>), LitI(<<"r","e","v","e","a","l">>), LitI(<<"d","i","s","c","l","o","s","e">>), LitI(<<"t","e","l","l">>), LitI(<<"s","h","o","w">>)>>)>>), t)

INJ002_hasCodeLevelMention(t) ==
  \* /(?:output filter|input valid|classif|sanitiz|allowlist|blocklist|regex|pattern match)/i
  regexTest(Alt(<<LitI(<<"o","u","t","p","u","t"," ","f","i","l","t","e","r">>), LitI(<<"i","n","p","u","t"," ","v","a","l","i","d">>), LitI(<<"c","l","a","s","s","i","f">>), LitI(<<"s","a","n","i","t","i","z">>), LitI(<<"a","l","l","o","w","l","i","s","t">>), LitI(<<"b","l","o","c","k","l","i","s","t">>), LitI(<<"r","e","g","e","x">>), LitI(<<"p","a","t","t","e","r","n"," ","m","a","t","c","h">>)>>), t)

INJ002_test(t) ==
  INJ002_hasSecrets(t) /\ INJ002_hasOnlyInstructionDefense(t) /\ ~ INJ002_hasCodeLevelMention(t)

\* INJ-003 test
INJ003_protectsPrompt(t) ==
  \* /(?:never|do not|don't)\s+(?:[\w,\s]+\s+)?(?:repeat|reveal|share|disclose|show|output|summarize)\s+(?:your\s+)?(?:system\s+)?(?:prompt|instructions?|rules?|configuration)/i
  \/ regexTest(Cat(<<Alt(<<LitI(<<"n","e","v","e","r">>), LitI(<<"d","o"," ","n","o","t">>), LitI(<<"d","o","n","'","t">>)>>), Plus(Set(WhiteSpace)), Opt(Cat(<<Plus(Set(WordChars \cup WhiteSpace \cup {","})), Plus(Set(WhiteSpace))>>)), Alt(<<LitI(<<"r","e","p","e","a","t">>), LitI(<<"r","e","v","e","a","l">>), LitI(<<"s","h","a","r","e">>), LitI(<<"d","i","s","c","l","o","s","e">>), LitI(<<"s","h","o","w">>), LitI(<<"o","u","t","p","u","t">>), LitI(<<"s","u","m","m","a","r","i","z","e">>)>>), Plus(Set(WhiteSpace)), Opt(Cat(<<LitI(<<"y","o","u","r">>), Plus(Set(WhiteSpace))>>)), Opt(Cat(<<LitI(<<"s","y","s","t","e","m">>), Plus(Set(WhiteSpace))>>)), Alt(<<LitI(<<"p","r","o","m","p","t">>), Cat(<<LitI(<<"i","n","s","t","r","u","c","t","i","o","n">>), Opt(LitI(<<"s">>))>>), Cat(<<LitI(<<"r","u","l","e">>), Opt(LitI(<<"s">>))>>), LitI(<<"c","o","n","f","i","g","u","r","a","t","i","o","n">>)>>)>>), t)
  \* /(?:never|do not|don't)\s+(?:repeat|reveal|share|disclose|show|output|summarize)[\w\s,]+(?:system\s+)?(?:prompt|instructions?|rules?)/i
  \/ regexTest(Cat(<<Alt(<<LitI(<<"n","e","v","e","r">>), LitI(<<"d","o"," ","n","o","t">>), LitI(<<"d","o","n","'","t">>)>>), Plus(Set(WhiteSpace)), Alt(<<LitI(<<"r","e","p","e","a","t">>), LitI(<<"r","e","v","e","a","l">>), LitI(<<"s","h","a","r","e">>), LitI(<<"d","i","s","c","l","o","s","e">>), LitI(<<"s","h","o","w">>), LitI(<<"o","u","t","p","u","t">>), LitI(<<"s","u","m","m","a","r","i","z","e">>)>>), Plus(Set(WordChars \cup WhiteSpace \cup {","})), Opt(Cat(<<LitI(<<"s","y","s","t","e","m">>), Plus(Set(WhiteSpace))>>)), Alt(<<LitI(<<"p","r","o","m","p","t">>), Cat(<<LitI(<<"i","n","s","t","r","u","c","t","i","o","n">>), Opt(LitI(<<"s">>))>>), Cat(<<LitI(<<"r","u","l","e">>), Opt(LitI(<<"s">>))>>)>>)>>), t)

INJ003_testNoLength(t) == ~ INJ003_protectsPrompt(t)

INJ003_test(t) == ~ INJ003_protectsPrompt(t) /\ Len(t) > 100

\* AGN-001 test
AGN001_hasTools(t) ==
  \* /(?:tool|function|api|endpoint|action|plugin|capability)/i
  regexTest(Alt(<<LitI(<<"t","o","o","l">>), LitI(<<"f","u","n","c","t","i","o","n">>), LitI(<<"a","p","i">>), LitI(<<"e","n","d","p","o","i","n","t">>), LitI(<<"a","c","t","i","o","n">>), LitI(<<"p","l","u","g","i","n">>), LitI(<<"c","a","p","a","b","i","l","i","t","y">>)>>), t)

AGN001_hasAccess(t) ==
  \* /(?:you can|you have access|you are able)/i
  regexTest(Alt(<<LitI(<<"y","o","u"," ","c","a","n">>), LitI(<<"y","o","u"," ","h","a","v","e"," ","a","c","c","e","s","s">>), LitI(<<"y","o","u"," ","a","r","e"," ","a","b","l","e">>)>>), t)

AGN001_hasRestrictions(t) ==
  \* /(?:only|limited to|restricted|do not|cannot|must not|require.*confirm|require.*approv)/i
  regexTest(Alt(<<LitI(<<"o","n","l","y">>), LitI(<<"l","i","m","i","t","e","d"," ","t","o">>), LitI(<<"r","e","s","t","r","i","c","t","e","d">>), LitI(<<"d","o"," ","n","o","t">>), LitI(<<"c","a","n","n","o","t">>), LitI(<<"m","u","s","t"," ","n","o","t">>), Cat(<<LitI(<<"r","e","q","u","i","r","e">>), Star(NotSet(LineTerminators)), LitI(<<"c","o","n","f","i","r","m">>)>>), Cat(<<LitI(<<"r","e","q","u","i","r","e">>), Star(NotSet(LineTerminators)), LitI(<<"a","p","p","r","o","v">>)>>)>>), t)

\* the test without the restriction phrasing
AGN001_testUnrestricted(t) == AGN001_hasTools(t) /\ AGN001_hasAccess(t)

AGN001_test(t) == AGN001_hasTools(t) /\ AGN001_hasAccess(t) /\ ~ AGN001_hasRestrictions(t)

\* AGN-002 test
AGN002_destructivePattern ==
  \* /(?:send\s+(?:email|message|notification)|delete\s+(?:file|record|data|user)|modify\s+(?:database|record)|make\s+(?:purchase|payment|transaction))/gi
  Alt(<<Cat(<<LitI(<<"s","e","n","d">>), Plus(Set(WhiteSpace)), Alt(<<LitI(<<"e","m","a","i","l">>), LitI(<<"m","e","s","s","a","g","e">>), LitI(<<"n","o","t","i","f","i","c","a","t","i","o","n">>)>>)>>), Cat(<<LitI(<<"d","e","l","e","t","e">>), Plus(Set(WhiteSpace)), Alt(<<LitI(<<"f","i","l","e">>), LitI(<<"r","e","c","o","r","d">>), LitI(<<"d","a","t","a">>), LitI(<<"u","s","e","r">>)>>)>>), Cat(<<LitI(<<"m","o","d","i","f","y">>), Plus(Set(WhiteSpace)), Alt(<<LitI(<<"d","a","t","a","b","a","s","e">>), LitI(<<"r","e","c","o","r","d">>)>>)>>), Cat(<<LitI(<<"m","a","k","e">>), Plus(Set(WhiteSpace)), Alt(<<LitI(<<"p","u","r","c","h","a","s","e">>), LitI(<<"p","a","y","m","e","n","t">>), LitI(<<"t","r","a","n","s","a","c","t","i","o","n">>)>>)>>)>>)

AGN002_hasConfirmation(t) ==
  \* /(?:confirm|verify|approval|ask.*before|check.*before|user.*confirm)/i
  regexTest(Alt(<<LitI(<<"c","o","n","f","i","r","m">>), LitI(<<"v","e","r","i","f","y">>), LitI(<<"a","p","p","r","o","v","a","l">>), Cat(<<LitI(<<"a","s","k">>), Star(NotSet(LineTerminators)), LitI(<<"b","e","f","o","r","e">>)>>), Cat(<<LitI(<<"c","h","e","c","k">>), Star(NotSet(LineTerminators)), LitI(<<"b","e","f","o","r","e">>)>>), Cat(<<LitI(<<"u","s","e","r">>), Star(NotSet(LineTerminators)), LitI(<<"c","o","n","f","i","r","m">>)>>)>>), t)

AGN002_hasProhibition(t) ==
  \* /(?:may not|cannot|must not|do not|don't|never)\s+(?:send|delete|remove|modify|update|create|write|post|publish|purchase|pay|transfer|execute|make)/i
  regexTest(Cat(<<Alt(<<LitI(<<"m","a","y"," ","n","o","t">>), LitI(<<"c","a","n","n","o","t">>), LitI(<<"m","u","s","t"," ","n","o","t">>), LitI(<<"d","o"," ","n","o","t">>), LitI(<<"d","o","n","'","t">>), LitI(<<"n","e","v","e","r">>)>>), Plus(Set(WhiteSpace)), Alt(<<LitI(<<"s","e","n","d">>), LitI(<<"d","e","l","e","t","e">>), LitI(<<"r","e","m","o","v","e">>), LitI(<<"m","o","d","i","f","y">>), LitI(<<"u","p","d","a","t","e">>), LitI(<<"c","r","e","a","t","e">>), LitI(<<"w","r","i","t","e">>), LitI(<<"p","o","s","t">>), LitI(<<"p","u","b","l","i","s","h">>), LitI(<<"p","u","r","c","h","a","s","e">>), LitI(<<"p","a","y">>), LitI(<<"t","r","a","n","s","f","e","r">>), LitI(<<"e","x","e","c","u","t","e">>), LitI(<<"m","a","k","e">>)>>)>>), t)

\* the test without the prohibition check
AGN002_testNoProhibition(t) ==
  LET matches == matchAll(AGN002_destructivePattern, t, 0)
  IN IF Len(matches) = 0 THEN FALSE ELSE ~ AGN002_hasConfirmation(t)

AGN002_test(t) ==
  LET matches == matchAll(AGN002_destructivePattern, t, 0)
  IN IF Len(matches) = 0 THEN FALSE
     ELSE ~ AGN002_hasConfirmation(t) /\ ~ AGN002_hasProhibition(t)

\* OUT-001 test
OUT001_mentionsSanitization(t) ==
  \* /(?:sanitiz|filter|validat|escap|strip|clean)\s*(?:output|response|html|javascript|markup)/i
  regexTest(Cat(<<Alt(<<LitI(<<"s","a","n","i","t","i","z">>), LitI(<<"f","i","l","t","e","r">>), LitI(<<"v","a","l","i","d","a","t">>), LitI(<<"e","s","c","a","p">>), LitI(<<"s","t","r","i","p">>), LitI(<<"c","l","e","a","n">>)>>), Star(Set(WhiteSpace)), Alt(<<LitI(<<"o","u","t","p","u","t">>), LitI(<<"r","e","s","p","o","n","s","e">>), LitI(<<"h","t","m","l">>), LitI(<<"j","a","v","a","s","c","r","i","p","t">>), LitI(<<"m","a","r","k","u","p">>)>>)>>), t)

OUT001_mentionsFormat(t) ==
  \* /(?:only respond in|format.*(?:plain text|json|markdown))/i
  regexTest(Alt(<<LitI(<<"o","n","l","y"," ","r","e","s","p","o","n","d"," ","i","n">>), Cat(<<LitI(<<"f","o","r","m","a","t">>), Star(NotSet(LineTerminators)), Alt(<<LitI(<<"p","l","a","i","n"," ","t","e","x","t">>), LitI(<<"j","s","o","n">>), LitI(<<"m","a","r","k","d","o","w","n">>)>>)>>)>>), t)

OUT001_test(t) == ~ OUT001_mentionsSanitization(t) /\ ~ OUT001_mentionsFormat(t) /\ Len(t) > 200

\* ATK-001 test
ATK001_testFrom2000(t) == Len(t) >= 2000

ATK001_test(t) == Len(t) > 2000

\* the indices of the rules that have a test property
rulesWithTest == {3, 6, 7, 8, 9, 10, 11, 13}

\* rule.test(text) of the rule at index r
ruleTest(r, t) ==
  CASE r = 3 -> SDE003_test(t)
    [] r = 6 -> INJ001_test(t)
    [] r = 7 -> INJ002_test(t)
    [] r = 8 -> INJ003_test(t)
    [] r = 9 -> AGN001_test(t)
    [] r = 10 -> AGN002_test(t)
    [] r = 11 -> OUT001_test(t)
    [] r = 13 -> ATK001_test(t)

\* the metadata properties of the rule objects, in declaration order
\* (description and recommendation are cut to their first words)
RuleDefs ==
  << [id |-> "SDE-001", name |-> "API Key or Token in Prompt", category |-> "Sensitive Data Exposure",
      severity |-> "critical", owasp |-> "LLM06",
      description |-> "API keys, tokens, or secrets embedded",
      recommendation |-> "Never embed secrets in system prompts."],
     [id |-> "SDE-002", name |-> "Password or Credential in Prompt", category |-> "Sensitive Data Exposure",
      severity |-> "critical", owasp |-> "LLM06",
      description |-> "Passwords, credentials, or authentication details in",
      recommendation |-> "Remove all credentials from prompts. If"],
     [id |-> "SDE-003", name |-> "PII or Sensitive Personal Data", category |-> "Sensitive Data Exposure",
      severity |-> "critical", owasp |-> "LLM06",
      description |-> "Personally Identifiable Information (PII) like SSNs,",
      recommendation |-> "Never embed PII in system prompts."],
     [id |-> "SDE-004", name |-> "Internal URLs or Endpoints", category |-> "Sensitive Data Exposure",
      severity |-> "high", owasp |-> "LLM06",
      description |-> "Internal API endpoints, admin URLs, or",
      recommendation |-> "Remove internal URLs from prompts. If"],
     [id |-> "SDE-005", name |-> "Database Connection String", category |-> "Sensitive Data Exposure",
      severity |-> "critical", owasp |-> "LLM06",
      description |-> "Database connection strings in the prompt",
      recommendation |-> "Never include connection strings in prompts."],
     [id |-> "INJ-001", name |-> "No Injection Defense Instructions", category |-> "Injection Defense",
      severity |-> "high", owasp |-> "LLM01",
      description |-> "The prompt contains no instructions to",
      recommendation |-> "Add explicit injection defense instructions: 'Ignore"],
     [id |-> "INJ-002", name |-> "Instruction-Only Defense (No Enforcement)", category |-> "Injection Defense",
      severity |-> "medium", owasp |-> "LLM01",
      description |-> "The prompt relies solely on instructions",
      recommendation |-> "Supplement instruction-level defenses with code-level enforcement:"],
     [id |-> "INJ-003", name |-> "System Prompt Leakage Risk", category |-> "Injection Defense",
      severity |-> "medium", owasp |-> "LLM01",
      description |-> "The prompt does not instruct the",
      recommendation |-> "Add instructions like: 'Never repeat, summarize,"],
     [id |-> "AGN-001", name |-> "Unrestricted Tool/Function Access", category |-> "Excessive Agency",
      severity |-> "high", owasp |-> "LLM08",
      description |-> "The prompt grants the LLM access",
      recommendation |-> "Apply the principle of least privilege:"],
     [id |-> "AGN-002", name |-> "Write/Delete/Send Without Confirmation", category |-> "Excessive Agency",
      severity |-> "high", owasp |-> "LLM08",
      description |-> "The prompt allows the LLM to",
      recommendation |-> "Always require explicit user confirmation before"],
     [id |-> "OUT-001", name |-> "No Output Sanitization Instructions", category |-> "Output Handling",
      severity |-> "medium", owasp |-> "LLM02",
      description |-> "The prompt does not mention sanitizing,",
      recommendation |-> "Implement output sanitization: strip or escape"],
     [id |-> "OUT-002", name |-> "Allows Code Execution or Eval", category |-> "Output Handling",
      severity |-> "critical", owasp |-> "LLM02",
      description |-> "The prompt instructs or allows the",
      recommendation |-> "Never auto-execute LLM-generated code. If code"],
     [id |-> "ATK-001", name |-> "Overly Detailed System Context", category |-> "Attack Surface",
      severity |-> "low", owasp |-> "LLM01",
      description |-> "The system prompt contains extensive business",
      recommendation |-> "Minimize information in the system prompt."],
     [id |-> "ATK-002", name |-> "Multi-Role or Persona Instructions", category |-> "Attack Surface",
      severity |-> "low", owasp |-> "LLM01",
      description |-> "The prompt defines multiple roles, personas,",
      recommendation |-> "Keep the prompt to a single,"],
     [id |-> "ATK-003", name |-> "Markdown/HTML Rendering Enabled", category |-> "Attack Surface",
      severity |-> "low", owasp |-> "LLM02",
      description |-> "The prompt instructs the model to",
      recommendation |-> "If markdown/HTML output is needed, implement"] >>

-----------------------------------------------------------------------------
(* The texts                                                                *)

\* the fragments the texts are built of
Vocabulary ==
  << <<"\n">>,
     <<"i","f"," ","a"," ","m","o","d","e",":">>,
     <<"y","o","u"," ","c","a","n"," ","u","s","e"," ","a","p","i"," ">>,
     <<"f","u","l","l"," ","a","c","c","e","s","s">>,
     <<"d","o"," ","n","o","t"," ">>,
     <<"d","e","l","e","t","e"," ","d","a","t","a"," ">>,
     <<"b","y","p","a","s","s"," ">>,
     <<"r","u","n"," ","c","o","d","e"," ">> >>

\* the most fragments in a text
MaxTokens == 2

RECURSIVE Flatten(_)
Flatten(ts) == IF ts = <<>> THEN <<>> ELSE Vocabulary[Head(ts)] \o Flatten(Tail(ts))

Texts == {Flatten(ts) : ts \in UNION {[1..n -> 1..Len(Vocabulary)] : n \in 0..MaxTokens}}

-----------------------------------------------------------------------------
(* The scanner engine: scanPrompt                                           *)

\* the RegExp objects of the catalog, as <<rule index, pattern index>>
PatternKeys ==
  UNION {{<<r, p>> : p \in 1..Len(rulePatterns[r])} : r \in 1..Len(rulePatterns)}

\* a RegExp literal is created with lastIndex 0
InitialLastIndex == [key \in PatternKeys |-> 0]

\* a search that starts at the lastIndex the pattern object was left with and
\* stores where it ended, as pattern.exec(text) does
ScanPatternSticky(pattern, t, li) ==
  IF exec(pattern, t, li) = NoMatch
  THEN [matches |-> <<>>, lastIndex |-> 0]
  ELSE [matches |-> <<exec(pattern, t, li)>>, lastIndex |-> exec(pattern, t, li).end]

\* pattern.lastIndex = 0; const matches = [...text.matchAll(pattern)];
\* gives the matches and the lastIndex the pattern object is left with (matchAll
\* advances its own clone, never the pattern)
ScanPattern(pattern, t, li) ==
  LET reset == 0
  IN [matches |-> matchAll(pattern, t, reset), lastIndex |-> reset]

\* a search that works on the pattern object itself and leaves its lastIndex
\* where the last match ended
searchShared(pattern, t, li) ==
  IF matchAll(pattern, t, li) = <<>>
  THEN [matches |-> <<>>, lastIndex |-> li]
  ELSE [matches |-> matchAll(pattern, t, li),
        lastIndex |-> matchAll(pattern, t, li)[Len(matchAll(pattern, t, li))].end]

\* [...text.matchAll(pattern)] alone, with the pattern's lastIndex at li: the
\* clone starts at li and the pattern object keeps its lastIndex
search(pattern, t, li) == [matches |-> matchAll(pattern, t, li), lastIndex |-> li]

\* the number of lines of the whole text
lineOfText(t, index) == Len(split(t, "\n"))

\* A search is a function of the pattern, the text and the pattern's lastIndex:
\* the searches of the catalog's patterns in the texts from lastIndex 0, computed
\* once
PatternMemo ==
  [t \in Texts |-> [key \in PatternKeys |->
                      ScanPattern(rulePatterns[key[1]][key[2]], t, 0)]]

ScanPatternOn(pattern, r, p, t, li) ==
  IF li = 0 /\ t \in Texts THEN PatternMemo[t][<<r, p>>] ELSE ScanPattern(pattern, t, li)

\* a test is a function of the text: the tests of the rules on the texts,
\* computed once
TestMemo == [t \in Texts |-> [r \in rulesWithTest |-> ruleTest(r, t)]]

ruleTestOn(r, t) == IF t \in Texts THEN TestMemo[t][r] ELSE ruleTest(r, t)

\* text.substring(0, m.index).split("\n").length
lineOf(t, index) == Len(split(substring(t, 0, index), "\n"))

\* the object built for one match m
matchDetail(t, m) ==
  [match |-> substring(SubSeq(t, m.index + 1, m.end), 0, 80),
   index |-> m.index,
   line |-> lineOf(t, m.index)]

\* matchDetails.unshift(...matches.map(...))
unshiftDetails(matchDetails, t, matches) ==
  [n \in 1..Len(matches) |-> matchDetail(t, matches[n])] \o matchDetails

\* matchDetails.push(...matches.map(...))
pushDetails(matchDetails, t, matches) ==
  matchDetails \o [n \in 1..Len(matches) |-> matchDetail(t, matches[n])]

\* the loop over rule.patterns, from pattern p on; r is the rule's index, seen
\* the match lists the searches of the patterns before p returned
RECURSIVE patternLoop(_, _, _, _, _, _, _, _), patternStep(_, _, _, _, _, _, _, _, _)
patternLoop(patterns, r, p, t, li, matched, matchDetails, seen) ==
  IF p > Len(patterns)
  THEN [matched |-> matched, matchDetails |-> matchDetails, lastIndex |-> li, seen |-> seen]
  ELSE patternStep(patterns, r, p, t, li, matched, matchDetails, seen,
                   ScanPatternOn(patterns[p], r, p, t, li[<<r, p>>]))

\* the body of the loop after the search s of pattern p
patternStep(patterns, r, p, t, li, matched, matchDetails, seen, s) ==
  IF Len(s.matches) > 0
  THEN patternLoop(patterns, r, p + 1, t, [li EXCEPT ![<<r, p>>] = s.lastIndex],
                   TRUE, pushDetails(matchDetails, t, s.matches), Append(seen, s.matches))
  ELSE patternLoop(patterns, r, p + 1, t, [li EXCEPT ![<<r, p>>] = s.lastIndex],
                   matched, matchDetails, Append(seen, s.matches))

\* a match entry on the first line
SentinelFirstLine == [match |-> <<"(structural analysis)">>, index |-> 0, line |-> 1]

\* the match entry of a finding made by rule.test; its text is kept as a
\* one-element sequence, which no sequence of characters of a text equals
Sentinel == [match |-> <<"(structural analysis)">>, index |-> 0, line |-> 0]

\* if (rule.test) { if (rule.test(text)) {...} }
logicDetectionAlways(r, t, matched, matchDetails) ==
  IF r \in rulesWithTest
  THEN IF ruleTestOn(r, t)
       THEN [matched |-> TRUE,
             matchDetails |-> Append(matchDetails, [match |-> <<"(structural analysis)">>,
                                                    index |-> 0, line |-> 0]),
             ran |-> TRUE]
       ELSE [matched |-> matched, matchDetails |-> matchDetails, ran |-> TRUE]
  ELSE [matched |-> matched, matchDetails |-> matchDetails, ran |-> FALSE]

\* if (rule.test && !matched) { if (rule.test(text)) {...} }
\* ran: whether rule.test was called
logicDetection(r, t, matched, matchDetails) ==
  IF r \in rulesWithTest /\ ~ matched
  THEN IF ruleTestOn(r, t)
       THEN [matched |-> TRUE, matchDetails |-> Append(matchDetails, Sentinel), ran |-> TRUE]
       ELSE [matched |-> matched, matchDetails |-> matchDetails, ran |-> TRUE]
  ELSE [matched |-> matched, matchDetails |-> matchDetails, ran |-> FALSE]

\* the finding object of a triggered rule
Finding(rule, matchDetails) ==
  [id |-> rule.id, name |-> rule.name, category |-> rule.category,
   severity |-> rule.severity, owasp |-> rule.owasp,
   description |-> rule.description, recommendation |-> rule.recommendation,
   matches |-> matchDetails]

\* findings.unshift(finding)
unshiftFinding(fs, f) == <<f>> \o fs

\* findings.push(finding)
pushFinding(fs, f) == Append(fs, f)

\* the rules array: references to the rule objects, in declaration order
Catalog == [r \in 1..Len(RuleDefs) |-> r]

\* the loop over the array cat of rule objects, from position c on; rls are the
\* rule objects' metadata, ran the rules whose test was called, each with what it
\* returned, found the match lists of the rules before position c
RECURSIVE ruleLoop(_, _, _, _, _, _, _, _), ruleLogic(_, _, _, _, _, _, _, _), ruleEmit(_, _, _, _, _, _, _, _, _)
\* the loop with `let matched` declared once, before the loop: it stays true
\* for the rules after the first one that triggered
ruleLoopSharedMatched(c, cat, rls, t, li, fs, ran, found) ==
  IF c > Len(cat)
  THEN [findings |-> fs, lastIndex |-> li, invoked |-> ran, hits |-> found]
  ELSE ruleLogic(c, cat, rls, t, fs, ran, found,
                 patternLoop(rulePatterns[cat[c]], cat[c], 1, t, li, fs # <<>>, <<>>, <<>>))

ruleLoop(c, cat, rls, t, li, fs, ran, found) ==
  IF c > Len(cat)
  THEN [findings |-> fs, lastIndex |-> li, invoked |-> ran, hits |-> found]
  ELSE ruleLogic(c, cat, rls, t, fs, ran, found,
                 patternLoop(rulePatterns[cat[c]], cat[c], 1, t, li, FALSE, <<>>, <<>>))

\* the body of the loop after the pattern-based detection pd
ruleLogic(c, cat, rls, t, fs, ran, found, pd) ==
  ruleEmit(c, cat, rls, t, pd.lastIndex, fs, ran, Append(found, pd.seen),
           logicDetection(cat[c], t, pd.matched, pd.matchDetails))

\* the end of the body, after the logic-based detection ld: if (matched) {...}
ruleEmit(c, cat, rls, t, li, fs, ran, found, ld) ==
  IF ld.matched
  THEN ruleLoop(c + 1, cat, rls, t, li,
                pushFinding(fs, Finding(rls[cat[c]], ld.matchDetails)),
                IF ld.ran THEN ran \cup {<<cat[c], TRUE>>} ELSE ran, found)
  ELSE ruleLoop(c + 1, cat, rls, t, li, fs,
                IF ld.ran THEN ran \cup {<<cat[c], FALSE>>} ELSE ran, found)

\* the body of scanPrompt(text) over the rules array cat, with the rule objects
\* in the state rls, li: the findings it returns, the lastIndex values it leaves,
\* the rules whose test it called and the match lists its searches returned
scanCatalog(t, cat, rls, li) == ruleLoop(1, cat, rls, t, li, <<>>, {}, <<>>)

\* scanPrompt(text): the module's rules array is Catalog
scanPrompt(t, rls, li) == scanCatalog(t, Catalog, rls, li)

\* Loading the module evaluates the array literal and the two function
\* declarations and exports them: no statement inspects the rule objects, so
\* every array of rule objects loads.
loadModule(cat) == [rules |-> cat, outcome |-> "loaded"]

\* what a throwing rule.test(text) throws: an error object of its own making
ThrownByTest == [name |-> "TypeError", message |-> "thrown in rule.test"]

NoOutcome == [threw |-> FALSE, returned |-> FALSE, error |-> [name |-> ""], findings |-> <<>>]

\* scanPrompt(text) when the call rule.test(text) of rule object bad throws e.
\* scanPrompt has no try/catch: the exception leaves the if statement, the loop
\* and the function, so the caller gets e as thrown and no return value. The
\* call is made only if no pattern of the rule matched.
RECURSIVE throwLoop(_, _, _, _, _, _, _, _), throwLogic(_, _, _, _, _, _, _, _), throwEmit(_, _, _, _, _, _, _, _, _)
throwLoop(c, cat, rls, t, li, fs, bad, e) ==
  IF c > Len(cat)
  THEN [threw |-> FALSE, returned |-> TRUE, error |-> [name |-> ""], findings |-> fs,
        lastIndex |-> li]
  ELSE throwLogic(c, cat, rls, t, fs, bad, e,
                  patternLoop(rulePatterns[cat[c]], cat[c], 1, t, li, FALSE, <<>>, <<>>))

throwLogic(c, cat, rls, t, fs, bad, e, pd) ==
  IF cat[c] = bad /\ cat[c] \in rulesWithTest /\ ~ pd.matched
  THEN [threw |-> TRUE, returned |-> FALSE, error |-> e, findings |-> <<>>,
        lastIndex |-> pd.lastIndex]
  ELSE throwEmit(c, cat, rls, t, pd.lastIndex, fs, bad, e,
                 logicDetection(cat[c], t, pd.matched, pd.matchDetails))

throwEmit(c, cat, rls, t, li, fs, bad, e, ld) ==
  IF ld.matched
  THEN throwLoop(c + 1, cat, rls, t, li,
                 pushFinding(fs, Finding(rls[cat[c]], ld.matchDetails)), bad, e)
  ELSE throwLoop(c + 1, cat, rls, t, li, fs, bad, e)

scanPromptThrowing(t, rls, li, bad, e) == throwLoop(1, Catalog, rls, t, li, <<>>, bad, e)

-----------------------------------------------------------------------------
(* getRules                                                                 *)

\* An element of a returned array is a reference to an object: alias = 0 is an
\* object created by the call, whose properties are obj; alias = r is the
\* catalog's rule object r itself.

\* the rule object r itself, at index i of the catalog
summaryAlias(r, i) == [alias |-> i, obj |-> r]

\* the object rules.map builds for rule object r at index i
summaryOf(r, i) ==
  [alias |-> 0,
   obj |-> [id |-> r.id, name |-> r.name, category |-> r.category,
            severity |-> r.severity, owasp |-> r.owasp]]

getRules(rls) == [i \in 1..Len(rls) |-> summaryOf(rls[i], i)]

\* the properties of the object a reference leads to
deref(ref, rls) == IF ref.alias = 0 THEN ref.obj ELSE rls[ref.alias]

-----------------------------------------------------------------------------
(* The score and the grade                                                  *)

\* let score = 100
MaxScore == 100

\* the switch with the medium and low penalties exchanged
penaltySwapped(severity) ==
  CASE severity = "critical" -> 25
    [] severity = "high" -> 15
    [] severity = "medium" -> 3
    [] severity = "low" -> 8
    [] OTHER -> 0

\* the switch on f.severity
penalty(severity) ==
  CASE severity = "critical" -> 25
    [] severity = "high" -> 15
    [] severity = "medium" -> 8
    [] severity = "low" -> 3
    [] OTHER -> 0

\* the loop of calculateScore, from finding n on
RECURSIVE scoreLoop(_, _, _)
scoreLoop(fs, n, s) ==
  IF n > Len(fs) THEN s ELSE scoreLoop(fs, n + 1, s - penalty(fs[n].severity))

\* return score, without Math.max
calculateScoreUnclamped(fs) == scoreLoop(fs, 1, MaxScore)

\* Math.max(0, score)
calculateScore(fs) ==
  LET s == scoreLoop(fs, 1, MaxScore) IN IF s > 0 THEN s ELSE 0

\* const severityOrder = { low: 0, medium: 1, high: 2, critical: 3 }
severityOrder == [low |-> 0, medium |-> 1, high |-> 2, critical |-> 3]

\* severityOrder[s] || 0: a string that is not a key gives undefined, and 0
orderOr0(s) == IF s \in DOMAIN severityOrder THEN severityOrder[s] ELSE 0

\* the filter with > for >=
severityFilterAbove(results, min) ==
  SelectSeq(results, LAMBDA r : orderOr0(r.severity) > min)

\* results.filter((r) => (severityOrder[r.severity] || 0) >= minSeverity)
severityFilter(results, min) ==
  SelectSeq(results, LAMBDA r : orderOr0(r.severity) >= min)

\* filtered.filter((r) => r.severity === sev).length
countOf(filtered, sev) == Len(SelectSeq(filtered, LAMBDA r : r.severity = sev))

\* the object pushed with the score of the unfiltered results
sourceResultUnfiltered(name, results, filtered) ==
  [source |-> name, findings |-> filtered, score |-> calculateScore(results)]

\* { source: source.name, findings: filtered, score: calculateScore(filtered) }
sourceResult(name, results, filtered) ==
  [source |-> name, findings |-> filtered, score |-> calculateScore(filtered)]

\* the exit code from the critical count alone
exitCodeCriticalOnly(critical, high) == IF critical > 0 THEN 1 ELSE 0

\* criticalCount > 0 || highCount > 0 ? 1 : 0
exitCodeOf(critical, high) == IF critical > 0 \/ high > 0 THEN 1 ELSE 0

\* the value of an option that was not given, and of one given as the string s
Null == [given |-> FALSE, value |-> <<>>]

option(s) == [given |-> TRUE, value |-> s]

\* what parseArgs returns for an empty command line (severity is argsSeverity)
NoArgs == [help |-> FALSE, json |-> FALSE, text |-> Null, dir |-> Null, files |-> <<>>]

\* JavaScript's !!s for an option's value: null and the empty string are falsy
truthy(s) == s.given /\ s.value # <<>>

\* the condition of main under which help is shown and nothing else is done
needsHelpFlagOnly(a) == a.help

needsHelp(a) == a.help \/ (~truthy(a.text) /\ Len(a.files) = 0 /\ ~truthy(a.dir))

\* what a path names on the disk: nothing, a file of some content, or a
\* directory, given by the supported files among its entries
Missing == [kind |-> "missing", content |-> <<>>, entries |-> <<>>]

fileOf(content) == [kind |-> "file", content |-> content, entries |-> <<>>]

directory(entries) == [kind |-> "directory", content |-> <<>>, entries |-> entries]

\* what a loader returns or how it ends the process: exit is NoExit when it returns
NoExit == -1

\* loadFile: node is what the path names on the disk; readFileSync throws on a
\* directory, and nothing catches it
loadFileSkipMissing(filePath, node) ==
  [exit |-> NoExit, message |-> "",
   loaded |-> IF node.kind = "file"
              THEN <<[name |-> filePath, content |-> node.content]>> ELSE <<>>]

loadFile(filePath, node) ==
  IF node.kind = "missing"
  THEN [exit |-> 1, message |-> "File not found", loaded |-> <<>>]
  ELSE IF node.kind = "directory"
  THEN [exit |-> 1, message |-> "EISDIR", loaded |-> <<>>]
  ELSE [exit |-> NoExit, message |-> "",
        loaded |-> <<[name |-> filePath, content |-> node.content]>>]

\* loadDirectory: node is what the path names on the disk
loadDirectory(dirPath, node) ==
  IF node.kind # "directory"
  THEN [exit |-> 1, message |-> "Directory not found", loaded |-> <<>>]
  ELSE IF Len(node.entries) = 0
  THEN [exit |-> 0, message |-> "No supported files found", loaded |-> <<>>]
  ELSE [exit |-> NoExit, message |-> "", loaded |-> node.entries]

\* the value of a division by zero followed by Math.round
NaN == -1

RECURSIVE sumScores(_)
sumScores(results) ==
  IF results = <<>> THEN 0 ELSE Head(results).score + sumScores(Tail(results))

\* Math.round(sum of the scores / results.length)
averageScore(results) ==
  IF Len(results) = 0
  THEN NaN
  ELSE (2 * sumScores(results) + Len(results)) \div (2 * Len(results))

RECURSIVE sumFindings(_)
sumFindings(results) ==
  IF results = <<>> THEN 0 ELSE Len(Head(results).findings) + sumFindings(Tail(results))

\* the summary of formatReport and of formatJSON
summary(results, json) ==
  [format |-> IF json THEN "json" ELSE "text",
   sourcesScanned |-> Len(results),
   totalFindings |-> sumFindings(results),
   averageScore |-> averageScore(results)]

\* nothing printed
NoOutput == [format |-> "none", sourcesScanned |-> 0, totalFindings |-> 0, averageScore |-> 0]

\* a message in place of a report
message(msg) == [format |-> msg, sourcesScanned |-> 0, totalFindings |-> 0, averageScore |-> 0]

\* the name of the source made of --text
Inline == <<"<", "i", "n", "l", "i", "n", "e", ">">>

\* the paths of the command lines
DirPath == <<"d">>

FileA == <<"a", ".", "t", "x", "t">>

FileB == <<"b", ".", "m", "d">>

Paths == {DirPath, FileA, FileB}

\* a disk on which every load but that of FileB succeeds: DirPath is a directory
\* with one supported file, FileA is a file, FileB names nothing
Disk0 ==
  [p \in Paths |->
     IF p = DirPath
     THEN directory(<<[name |-> <<"p", ".", "m", "d">>, content |-> Flatten(<<8>>)]>>)
     ELSE IF p = FileA THEN fileOf(Flatten(<<1>>)) ELSE Missing]

\* the comparisons with > for >=
scoreGradeStrict(s) ==
  IF s > 90 THEN "A"
  ELSE IF s > 80 THEN "B"
  ELSE IF s > 70 THEN "C"
  ELSE IF s > 60 THEN "D"
  ELSE "F"

scoreGrade(s) ==
  IF s >= 90 THEN "A"
  ELSE IF s >= 80 THEN "B"
  ELSE IF s >= 70 THEN "C"
  ELSE IF s >= 60 THEN "D"
  ELSE "F"

-----------------------------------------------------------------------------
(* The inputs                                                               *)

\* scanPrompt is a function of the text and the catalog's state: its results on
\* the texts with the catalog as constructed, computed once
ScanMemo == [t \in Texts |-> scanPrompt(t, RuleDefs, InitialLastIndex)]

scanPromptOn(t, rls, li) ==
  IF rls = RuleDefs /\ li = InitialLastIndex /\ t \in Texts
  THEN ScanMemo[t]
  ELSE scanPrompt(t, rls, li)

\* the texts of one fragment, scanned between the scans of text
OtherTexts == {Flatten(<<i>>) : i \in 1..Len(Vocabulary)}

\* empty and whitespace-only texts: a whitespace character repeated; the lengths
\* lie just above 0 and just above the lengths INJ-003 and OUT-001 compare
\* text.length with
MaxBlank == 8
BlankChars == {" ", "\n"}
BlankLengths == {g + k : g \in {0, 100, 200}, k \in 0..MaxBlank}
BlankTexts == {[i \in 1..n |-> c] : n \in BlankLengths, c \in BlankChars}

\* texts about destructive actions: phrases of the four destructive forms, a
\* prohibition opener and a confirmation word, up to MaxTokens of them in a row
AgencyVocabulary ==
  << <<"d","e","l","e","t","e"," ","d","a","t","a"," ">>,
     <<"s","e","n","d"," ","e","m","a","i","l"," ">>,
     <<"m","o","d","i","f","y"," ","r","e","c","o","r","d"," ">>,
     <<"m","a","k","e"," ","p","u","r","c","h","a","s","e"," ">>,
     <<"d","o"," ","n","o","t"," ">>,
     <<"c","o","n","f","i","r","m"," ">> >>

RECURSIVE FlattenAgency(_)
FlattenAgency(ts) ==
  IF ts = <<>> THEN <<>> ELSE AgencyVocabulary[Head(ts)] \o FlattenAgency(Tail(ts))

AgencyTexts ==
  {FlattenAgency(ts) : ts \in UNION {[1..n -> 1..Len(AgencyVocabulary)] : n \in 0..MaxTokens}}

\* texts about as long as the lengths INJ-003, OUT-001 and ATK-001 compare
\* text.length with: a phrase, filled up with hyphens to one character less than
\* the length, to the length itself, and to up to MaxOver - 1 characters more
\* (for ATK-001: to the length and to one character more)
MaxOver == 2
LongFragments ==
  << <<>>,
     <<"n","e","v","e","r"," ","r","e","v","e","a","l"," ","y","o","u","r"," ","s","y","s","t","e","m"," ","p","r","o","m","p","t"," ">>,
     <<"f","i","l","t","e","r"," ","o","u","t","p","u","t"," ">>,
     <<"y","o","u"," ","c","a","n"," ","u","s","e"," ","a","p","i"," ">>,
     <<"d","e","l","e","t","e"," ","d","a","t","a"," ">>,
     <<"f","u","l","l"," ","a","c","c","e","s","s"," ">> >>

pad(frag, n) == [i \in 1..n |-> IF i <= Len(frag) THEN frag[i] ELSE "-"]

GuardLengths(g) == {g - 1 + k : k \in 0..MaxOver}

LongTexts ==
  {pad(LongFragments[f], n) : f \in 1..Len(LongFragments),
                              n \in GuardLengths(100) \cup GuardLengths(200)}
    \cup {pad(LongFragments[f], n) : f \in 1..2, n \in {2000, 2001}}

\* the scans of text that are counted
MaxScans == 2

\* the most findings in a list handed to calculateScore
MaxFindings == 5

\* one finding of each severity: those of SDE-003, INJ-001, INJ-002 and ATK-001
ScoreFindings == {Finding(RuleDefs[r], <<Sentinel>>) : r \in {3, 6, 7, 13}}

\* the properties of a summary a caller may overwrite
MutableFields == {"id", "severity"}

NoGrade == [score |-> -1, grade |-> ""]

-----------------------------------------------------------------------------
(* The engine: scans of a text, with scans of other texts between them      *)

engineVars == <<text, findings, firstFindings, scans, interleaved, invoked, hits, lastIndex,
                rules, returned, mutated, lastOp>>
scoreVars == <<flist, score, prevScore>>
gradeVars == <<graded, prevGraded>>
reducedVars == <<removed, reducedFindings>>
\* the variables the engine, score and grade operations leave alone
callerVars == <<held>>
throwVars == <<faulty, outcome>>
loadVars == <<catalog, loadOutcome, catalogFindings>>
cliVars == <<cliPc, disk, args, loadedFiles, output, argsSeverity, minSeverity, sources, allResults, totalFindings,
          criticalCount, highCount, exitCode>>
procVars == <<procs>>
otherVars == <<reducedVars, callerVars, throwVars, loadVars, cliVars, procVars>>

EngineStart ==
  /\ findings = <<>>
  /\ firstFindings = <<>>
  /\ scans = 0
  /\ interleaved = FALSE
  /\ invoked = {}
  /\ hits = <<>>
  /\ lastIndex = InitialLastIndex
  /\ rules = RuleDefs
  /\ returned = <<>>
  /\ mutated = FALSE
  /\ lastOp = "init"

ScoreStart ==
  /\ flist = <<>>
  /\ score = calculateScore(<<>>)
  /\ prevScore = calculateScore(<<>>)

GradeStart ==
  /\ graded = NoGrade
  /\ prevGraded = NoGrade

ReducedStart ==
  /\ removed = 0
  /\ reducedFindings = <<>>

CallerStart ==
  held = <<>>

ThrowStart ==
  /\ faulty = 0
  /\ outcome = NoOutcome

LoadStart ==
  /\ catalog = Catalog
  /\ loadOutcome = "loaded"
  /\ catalogFindings = <<>>

CliStart ==
  /\ cliPc = "idle"
  /\ disk = Disk0
  /\ args = NoArgs
  /\ loadedFiles = 0
  /\ output = NoOutput
  /\ argsSeverity = "low"
  /\ minSeverity = 0
  /\ sources = <<>>
  /\ allResults = <<>>
  /\ totalFindings = 0
  /\ criticalCount = 0
  /\ highCount = 0
  /\ exitCode = 0

ProcStart ==
  /\ procs = <<>>

OtherStart == ReducedStart /\ CallerStart /\ ThrowStart /\ LoadStart /\ CliStart /\ ProcStart

Init ==
  /\ text \in Texts
  /\ EngineStart
  /\ ScoreStart
  /\ GradeStart
  /\ OtherStart

\* scanPrompt(text)
ScanPrompt ==
  \E res \in {scanPromptOn(text, rules, lastIndex)} :
    /\ findings' = res.findings
    /\ firstFindings' = IF scans > 0 THEN firstFindings ELSE res.findings
    /\ scans' = IF scans < MaxScans THEN scans + 1 ELSE scans
    /\ invoked' = res.invoked
    /\ hits' = res.hits
    /\ lastIndex' = res.lastIndex
    /\ lastOp' = "scanPrompt"
    /\ UNCHANGED <<text, interleaved, rules, returned, mutated, scoreVars, gradeVars, otherVars>>

\* scanPrompt(t) of another text; the caller drops the result
ScanOther ==
  \E t \in OtherTexts \ {text} :
    /\ lastIndex' = scanPromptOn(t, rules, lastIndex).lastIndex
    /\ interleaved' = (interleaved \/ scans > 0)
    /\ lastOp' = "scanOther"
    /\ UNCHANGED <<text, findings, firstFindings, scans, invoked, hits, rules, returned,
                   mutated, scoreVars, gradeVars, otherVars>>

Next == ScanPrompt \/ ScanOther

Spec == Init /\ [][Next]_vars

-----------------------------------------------------------------------------
(* getRules, with scans before and after, and a caller that overwrites      *)
(* properties of the summaries it was given                                 *)

\* getRules()
GetRules ==
  /\ returned' = getRules(rules)
  /\ lastOp' = "getRules"
  /\ UNCHANGED <<text, findings, firstFindings, scans, interleaved, invoked, hits,
                 lastIndex, rules, mutated, scoreVars, gradeVars, otherVars>>

\* returned[i][f] = "changed", by a caller that has just been given the array:
\* the write goes to the object the element refers to
MutateSummary ==
  \E i \in 1..Len(returned), f \in MutableFields :
    /\ lastOp = "getRules"
    /\ IF returned[i].alias = 0
       THEN /\ returned' = [returned EXCEPT ![i].obj[f] = "changed"]
            /\ rules' = rules
       ELSE /\ rules' = [rules EXCEPT ![returned[i].alias][f] = "changed"]
            /\ returned' = returned
    /\ mutated' = TRUE
    /\ lastOp' = "mutate"
    /\ UNCHANGED <<text, findings, firstFindings, scans, interleaved, invoked, hits,
                   lastIndex, scoreVars, gradeVars, otherVars>>

NextRules == ScanPrompt \/ GetRules \/ MutateSummary

SpecRules == Init /\ [][NextRules]_vars

-----------------------------------------------------------------------------
(* calculateScore on findings lists                                         *)

InitScore ==
  /\ text = <<>>
  /\ EngineStart
  /\ ScoreStart
  /\ GradeStart
  /\ OtherStart

\* a finding is added to the list at offset pos, and the list scored again
AddFinding ==
  \E f \in ScoreFindings, pos \in 0..Len(flist) :
    /\ Len(flist) < MaxFindings
    /\ flist' = SubSeq(flist, 1, pos) \o <<f>> \o SubSeq(flist, pos + 1, Len(flist))
    /\ prevScore' = calculateScore(flist)
    /\ score' = calculateScore(flist')
    /\ UNCHANGED <<engineVars, gradeVars, otherVars>>

NextScore == AddFinding

SpecScore == InitScore /\ [][NextScore]_vars

-----------------------------------------------------------------------------
(* scoreGrade on the scores                                                 *)

\* scoreGrade(s)
ScoreGrade ==
  \E s \in 0..MaxScore :
    /\ prevGraded' = graded
    /\ graded' = [score |-> s, grade |-> scoreGrade(s)]
    /\ UNCHANGED <<engineVars, scoreVars, otherVars>>

NextGrade == ScoreGrade

SpecGrade == InitScore /\ [][NextGrade]_vars

-----------------------------------------------------------------------------
(* Scans of a text with one rule left out of the rules array                *)

\* the array cat without its element at position k
without(cat, k) == SubSeq(cat, 1, k - 1) \o SubSeq(cat, k + 1, Len(cat))

\* scanPrompt(text) of a module whose rules array lacks rule k
ScanWithout ==
  \E k \in 1..Len(Catalog) :
    /\ removed = 0
    /\ \E res \in {scanCatalog(text, without(Catalog, k), rules, lastIndex)} :
         /\ reducedFindings' = res.findings
         /\ lastIndex' = res.lastIndex
    /\ removed' = k
    /\ lastOp' = "scanWithout"
    /\ UNCHANGED <<text, findings, firstFindings, scans, interleaved, invoked, hits,
                   rules, returned, mutated, scoreVars, gradeVars, callerVars, throwVars,
                   loadVars,
                   cliVars,
                   procVars>>

NextReduced == ScanPrompt \/ ScanWithout

SpecReduced == Init /\ [][NextReduced]_vars

-----------------------------------------------------------------------------
(* Scans, with a caller that writes to a result it was given                *)

\* the caller overwrites a property of the first finding of the list it holds
\* and pushes an entry onto that finding's matches: findings[0].severity =
\* "changed"; findings[0].matches.push({...}). The list, its finding objects
\* and their matches arrays were created by the call that returned them.
MutateFindings ==
  /\ lastOp = "scanPrompt"
  /\ findings # <<>>
  /\ held = <<>>
  /\ held' = [findings EXCEPT ![1].severity = "changed",
                              ![1].matches = Append(@, [match |-> <<"changed">>,
                                                        index |-> 0, line |-> 0])]
  /\ lastOp' = "mutateFindings"
  /\ UNCHANGED <<text, findings, firstFindings, scans, interleaved, invoked, hits,
                 lastIndex, rules, returned, mutated, scoreVars, gradeVars, reducedVars, throwVars,
                 loadVars,
                 cliVars,
                 procVars>>

NextFrame == ScanPrompt \/ ScanOther \/ MutateFindings

SpecFrame == Init /\ [][NextFrame]_vars

-----------------------------------------------------------------------------
(* Scans in which the test of a rule throws                                 *)

\* scanPrompt(text) in which the test of rule bad throws when it is called
ScanThrowing ==
  \E bad \in rulesWithTest :
    /\ faulty' = bad
    /\ \E res \in {scanPromptThrowing(text, rules, lastIndex, bad, ThrownByTest)} :
         /\ outcome' = [threw |-> res.threw, returned |-> res.returned,
                        error |-> res.error, findings |-> res.findings]
         /\ lastIndex' = res.lastIndex
    /\ lastOp' = "scanThrowing"
    /\ UNCHANGED <<text, findings, firstFindings, scans, interleaved, invoked, hits,
                   rules, returned, mutated, scoreVars, gradeVars,
                   reducedVars, callerVars, loadVars,
                   cliVars,
                   procVars>>

NextThrow == ScanPrompt \/ ScanThrowing

SpecThrow == Init /\ [][NextThrow]_vars

-----------------------------------------------------------------------------
(* Loading the module with an edited rules array                            *)

\* the shipped array, and the shipped array with a second rule object that has
\* the id (and the rest) of rule k
Catalogs == {Catalog} \cup {Append(Catalog, k) : k \in 1..Len(Catalog)}

\* the module is loaded with rules array cat
LoadCatalog ==
  \E cat \in Catalogs :
    \E m \in {loadModule(cat)} :
      /\ catalog' = m.rules
      /\ loadOutcome' = m.outcome
      /\ catalogFindings' = <<>>
      /\ lastOp' = "load"
      /\ UNCHANGED <<text, findings, firstFindings, scans, interleaved, invoked, hits,
                     lastIndex, rules, returned, mutated, scoreVars, gradeVars,
                     reducedVars, callerVars, throwVars,
                     cliVars,
                     procVars>>

\* scanPrompt(text) of the loaded module
ScanLoaded ==
  /\ loadOutcome = "loaded"
  /\ \E res \in {scanCatalog(text, catalog, rules, lastIndex)} :
       /\ catalogFindings' = res.findings
       /\ lastIndex' = res.lastIndex
  /\ lastOp' = "scanLoaded"
  /\ UNCHANGED <<text, findings, firstFindings, scans, interleaved, invoked, hits,
                 rules, returned, mutated, scoreVars, gradeVars,
                 reducedVars, callerVars, throwVars, catalog, loadOutcome,
                 cliVars,
                 procVars>>

NextLoad == LoadCatalog \/ ScanLoaded

SpecLoad == Init /\ [][NextLoad]_vars

-----------------------------------------------------------------------------
(* Scans of empty and whitespace-only texts                                 *)

InitBlank ==
  /\ text \in BlankTexts
  /\ EngineStart
  /\ ScoreStart
  /\ GradeStart
  /\ OtherStart

SpecBlank == InitBlank /\ [][ScanPrompt]_vars

-----------------------------------------------------------------------------
(* The command-line program: pi-scan                                        *)

\* the values of --severity: the four levels, and a string that is not a level;
\* without the option parseArgs leaves "low"
SeverityArgs == {"low", "medium", "high", "critical", "info"}

\* the command lines: --help and --json given or not, --text absent or text
\* (which may be the empty string), --dir absent or DirPath, and no file, one
\* file or two files; none of the files is named *.json
ArgLists ==
  {[help |-> h, json |-> j, text |-> t, dir |-> d, files |-> fs] :
     h \in BOOLEAN, j \in BOOLEAN, t \in {Null, option(text)},
     d \in {Null, option(DirPath)}, fs \in {<<>>, <<FileA>>, <<FileA, FileB>>}}

\* where main goes on after the inline text, and after the directory
afterDir(a) == IF Len(a.files) > 0 THEN "files" ELSE "scan"

afterText(a) == IF truthy(a.dir) THEN "dir" ELSE afterDir(a)

\* parseArgs, the help check, the threshold and the inline source
CliMain ==
  /\ cliPc = "idle"
  /\ \E arg \in SeverityArgs, a \in ArgLists :
       /\ args' = a
       /\ argsSeverity' = arg
       /\ IF needsHelp(a)
          THEN /\ output' = message("help")
               /\ cliPc' = "helped"
               /\ UNCHANGED <<minSeverity, sources>>
          ELSE /\ minSeverity' = orderOr0(arg)
               /\ sources' = IF truthy(a.text)
                             THEN <<[name |-> Inline, content |-> a.text.value]>>
                             ELSE <<>>
               /\ cliPc' = afterText(a)
               /\ UNCHANGED output
  /\ lastOp' = "cliMain"
  /\ UNCHANGED <<text, findings, firstFindings, scans, interleaved, invoked, hits,
                 lastIndex, rules, returned, mutated, disk, loadedFiles, exitCode,
                 allResults, totalFindings, criticalCount, highCount, scoreVars,
                 gradeVars, reducedVars, callerVars, throwVars, loadVars, procVars>>

\* sources.push(...loadDirectory(args.dir))
CliDir ==
  /\ cliPc = "dir"
  /\ \E r \in {loadDirectory(args.dir.value, disk[args.dir.value])} :
       IF r.exit # NoExit
       THEN /\ output' = message(r.message)
            /\ exitCode' = r.exit
            /\ cliPc' = "failed"
            /\ UNCHANGED sources
       ELSE /\ sources' = sources \o r.loaded
            /\ cliPc' = afterDir(args)
            /\ UNCHANGED <<output, exitCode>>
  /\ lastOp' = "cliDir"
  /\ UNCHANGED <<text, findings, firstFindings, scans, interleaved, invoked, hits,
                 lastIndex, rules, returned, mutated, disk, args, loadedFiles,
                 argsSeverity, minSeverity,
                 allResults, totalFindings, criticalCount, highCount, scoreVars,
                 gradeVars, reducedVars, callerVars, throwVars, loadVars, procVars>>

\* one turn of the loop over args.files
CliFile ==
  /\ cliPc = "files"
  /\ loadedFiles < Len(args.files)
  /\ \E file \in {args.files[loadedFiles + 1]} :
       \E r \in {loadFile(file, disk[file])} :
         IF r.exit # NoExit
         THEN /\ output' = message(r.message)
              /\ exitCode' = r.exit
              /\ cliPc' = "failed"
              /\ UNCHANGED sources
         ELSE /\ sources' = sources \o r.loaded
              /\ cliPc' = IF loadedFiles + 1 = Len(args.files) THEN "scan" ELSE "files"
              /\ UNCHANGED <<output, exitCode>>
  /\ loadedFiles' = loadedFiles + 1
  /\ lastOp' = "cliFile"
  /\ UNCHANGED <<text, findings, firstFindings, scans, interleaved, invoked, hits,
                 lastIndex, rules, returned, mutated, disk, args,
                 argsSeverity, minSeverity,
                 allResults, totalFindings, criticalCount, highCount, scoreVars,
                 gradeVars, reducedVars, callerVars, throwVars, loadVars, procVars>>

\* one turn of the loop over sources
CliScan ==
  /\ cliPc = "scan"
  /\ Len(allResults) < Len(sources)
  /\ \E source \in {sources[Len(allResults) + 1]} :
       \E res \in {scanPromptOn(source.content, rules, lastIndex)} :
         \E filtered \in {severityFilter(res.findings, minSeverity)} :
           /\ allResults' = Append(allResults, sourceResult(source.name, res.findings, filtered))
           /\ totalFindings' = totalFindings + Len(filtered)
           /\ criticalCount' = criticalCount + countOf(filtered, "critical")
           /\ highCount' = highCount + countOf(filtered, "high")
           /\ lastIndex' = res.lastIndex
  /\ lastOp' = "cliScan"
  /\ UNCHANGED <<text, findings, firstFindings, scans, interleaved, invoked, hits,
                 rules, returned, mutated, cliPc, disk, args, loadedFiles, output,
                 argsSeverity, minSeverity, sources, exitCode,
                 scoreVars, gradeVars, reducedVars, callerVars, throwVars, loadVars,
                 procVars>>

\* console.log of formatJSON or of formatReport, after the loop
CliReport ==
  /\ cliPc = "scan"
  /\ Len(allResults) = Len(sources)
  /\ output' = summary(allResults, args.json)
  /\ cliPc' = "report"
  /\ lastOp' = "cliReport"
  /\ UNCHANGED <<text, findings, firstFindings, scans, interleaved, invoked, hits,
                 lastIndex, rules, returned, mutated, disk, args, loadedFiles,
                 argsSeverity, minSeverity, sources, exitCode,
                 allResults, totalFindings, criticalCount, highCount, scoreVars,
                 gradeVars, reducedVars, callerVars, throwVars, loadVars, procVars>>

\* process.exit after the report
CliExit ==
  /\ cliPc = "report"
  /\ exitCode' = exitCodeOf(criticalCount, highCount)
  /\ cliPc' = "exited"
  /\ lastOp' = "cliExit"
  /\ UNCHANGED <<text, findings, firstFindings, scans, interleaved, invoked, hits,
                 lastIndex, rules, returned, mutated, disk, args, loadedFiles, output,
                 argsSeverity, minSeverity, sources, allResults, totalFindings,
                 criticalCount, highCount, scoreVars, gradeVars, reducedVars,
                 callerVars, throwVars, loadVars, procVars>>

NextCli == CliMain \/ CliDir \/ CliFile \/ CliScan \/ CliReport \/ CliExit

SpecCli == Init /\ [][NextCli]_vars

\* the inline texts of the runs over the disks: the empty string, a text without
\* findings and one with a critical finding
RunTexts == {<<>>, Flatten(<<7>>), Flatten(<<8>>)}

\* the disks: DirPath names nothing, a file, a directory without a supported
\* file or one with p.md; FileA names nothing, a directory or a file; FileB
\* names nothing or a file
Disks ==
  {[p \in Paths |-> IF p = DirPath THEN d ELSE IF p = FileA THEN a ELSE b] :
     d \in {Missing, fileOf(<<>>), directory(<<>>), Disk0[DirPath]},
     a \in {Missing, directory(<<>>), Disk0[FileA], fileOf(Flatten(<<7>>))},
     b \in {Missing, fileOf(Flatten(<<7>>))}}

InitRun ==
  /\ text \in RunTexts
  /\ EngineStart
  /\ ScoreStart
  /\ GradeStart
  /\ ReducedStart /\ CallerStart /\ ThrowStart /\ LoadStart /\ ProcStart
  /\ cliPc = "idle"
  /\ disk \in Disks
  /\ args = NoArgs
  /\ loadedFiles = 0
  /\ output = NoOutput
  /\ argsSeverity = "low"
  /\ minSeverity = 0
  /\ sources = <<>>
  /\ allResults = <<>>
  /\ totalFindings = 0
  /\ criticalCount = 0
  /\ highCount = 0
  /\ exitCode = 0

SpecRun == InitRun /\ [][NextCli]_vars

-----------------------------------------------------------------------------
(* Scans side by side: the statements of scanPrompt of two calls, taken in  *)
(* any order over the one rules array                                       *)

\* the texts of the two calls
PairTexts == {Flatten(<<4>>), Flatten(<<7, 4>>), Flatten(<<8>>)}

\* where a scan stands at pattern p of the rule at position c of the catalog
phaseAt(c, p) ==
  IF c > Len(Catalog) THEN "done"
  ELSE IF p > Len(rulePatterns[Catalog[c]]) THEN "logic"
  ELSE "reset"

\* const findings = []; and the first turn of the loop over rules
procStart(t) ==
  [text |-> t, c |-> 1, p |-> 1, phase |-> phaseAt(1, 1), matched |-> FALSE,
   matchDetails |-> <<>>, findings |-> <<>>, overlapped |-> FALSE]

\* the other scan is between its first and its last statement
midScan(i) ==
  \E j \in DOMAIN procs :
    j # i /\ procs[j].phase # "done" /\ (procs[j].c > 1 \/ procs[j].phase # phaseAt(1, 1))

\* two calls scanPrompt(t1), scanPrompt(t2) begin
ProcBegin ==
  /\ procs = <<>>
  /\ \E t1, t2 \in PairTexts : t1 # t2 /\ procs' = <<procStart(t1), procStart(t2)>>
  /\ lastOp' = "procBegin"
  /\ UNCHANGED <<text, findings, firstFindings, scans, interleaved, invoked, hits,
                 lastIndex, rules, returned, mutated, scoreVars, gradeVars,
                 reducedVars, callerVars, throwVars, loadVars, cliVars>>

\* pattern.lastIndex = 0
ProcReset(i) ==
  /\ i \in DOMAIN procs
  /\ procs[i].phase = "reset"
  /\ lastIndex' = [lastIndex EXCEPT ![<<Catalog[procs[i].c], procs[i].p>>] = 0]
  /\ procs' = [procs EXCEPT ![i].phase = "search",
                            ![i].overlapped = @ \/ midScan(i)]
  /\ lastOp' = "procReset"
  /\ UNCHANGED <<text, findings, firstFindings, scans, interleaved, invoked, hits,
                 rules, returned, mutated, scoreVars, gradeVars,
                 reducedVars, callerVars, throwVars, loadVars, cliVars>>

\* const matches = [...text.matchAll(pattern)]; if (matches.length > 0) {...}
ProcSearch(i) ==
  /\ i \in DOMAIN procs
  /\ procs[i].phase = "search"
  /\ \E r \in {Catalog[procs[i].c]} :
       \E s \in {search(rulePatterns[r][procs[i].p], procs[i].text,
                         lastIndex[<<r, procs[i].p>>])} :
         /\ lastIndex' = [lastIndex EXCEPT ![<<r, procs[i].p>>] = s.lastIndex]
         /\ procs' = [procs EXCEPT
                        ![i].matched = @ \/ Len(s.matches) > 0,
                        ![i].matchDetails = pushDetails(@, procs[i].text, s.matches),
                        ![i].p = @ + 1,
                        ![i].phase = phaseAt(procs[i].c, procs[i].p + 1),
                        ![i].overlapped = @ \/ midScan(i)]
  /\ lastOp' = "procSearch"
  /\ UNCHANGED <<text, findings, firstFindings, scans, interleaved, invoked, hits,
                 rules, returned, mutated, scoreVars, gradeVars,
                 reducedVars, callerVars, throwVars, loadVars, cliVars>>

\* the logic-based detection, findings.push and the next turn of the loop over
\* rules
ProcLogic(i) ==
  /\ i \in DOMAIN procs
  /\ procs[i].phase = "logic"
  /\ \E r \in {Catalog[procs[i].c]} :
       \E ld \in {logicDetection(r, procs[i].text, procs[i].matched, procs[i].matchDetails)} :
         procs' = [procs EXCEPT
                     ![i].findings = IF ld.matched
                                     THEN pushFinding(@, Finding(rules[r], ld.matchDetails))
                                     ELSE @,
                     ![i].matched = FALSE,
                     ![i].matchDetails = <<>>,
                     ![i].c = @ + 1,
                     ![i].p = 1,
                     ![i].phase = phaseAt(procs[i].c + 1, 1),
                     ![i].overlapped = @ \/ midScan(i)]
  /\ lastOp' = "procLogic"
  /\ UNCHANGED <<text, findings, firstFindings, scans, interleaved, invoked, hits,
                 lastIndex, rules, returned, mutated, scoreVars, gradeVars,
                 reducedVars, callerVars, throwVars, loadVars, cliVars>>

NextProcs ==
  \/ ProcBegin
  \/ \E i \in 1..2 : ProcReset(i)
  \/ \E i \in 1..2 : ProcSearch(i)
  \/ \E i \in 1..2 : ProcLogic(i)

SpecProcs == InitScore /\ [][NextProcs]_vars

-----------------------------------------------------------------------------
(* Scans of texts about destructive actions                                 *)

InitAgency ==
  /\ text \in AgencyTexts
  /\ EngineStart
  /\ ScoreStart
  /\ GradeStart
  /\ OtherStart

SpecAgency == InitAgency /\ [][ScanPrompt]_vars

-----------------------------------------------------------------------------
(* Scans of texts about as long as the length guards                        *)

InitLong ==
  /\ text \in LongTexts
  /\ EngineStart
  /\ ScoreStart
  /\ GradeStart
  /\ OtherStart

SpecLong == InitLong /\ [][ScanPrompt]_vars

-----------------------------------------------------------------------------
(* Properties of calculateScore, checked under SpecScore                    *)

Severities == {"critical", "high", "medium", "low"}

\* the number of findings of a severity in a list
severityCount(fs, sev) == Cardinality({n \in 1..Len(fs) : fs[n].severity = sev})

\* max(0, 100 - 25*critical - 15*high - 8*medium - 3*low)
closedForm(fs) ==
  IF 100 - 25 * severityCount(fs, "critical") - 15 * severityCount(fs, "high")
         - 8 * severityCount(fs, "medium") - 3 * severityCount(fs, "low") > 0
  THEN 100 - 25 * severityCount(fs, "critical") - 15 * severityCount(fs, "high")
           - 8 * severityCount(fs, "medium") - 3 * severityCount(fs, "low")
  ELSE 0

oneOfEach(fs) == Len(fs) = 4 /\ \A sev \in Severities : severityCount(fs, sev) = 1

\* C1: for every list of findings, calculateScore returns max(0, 100 - 25 * (number
\* of critical findings) - 15 * (number of high) - 8 * (number of medium) - 3 *
\* (number of low)); the empty list scores 100, a single critical finding scores
\* 75, and one finding of each severity scores 49.
C1_ScoreClosedForm ==
  /\ score = closedForm(flist)
  /\ flist = <<>> => score = 100
  /\ (Len(flist) = 1 /\ flist[1].severity = "critical") => score = 75
  /\ oneOfEach(flist) => score = 49

\* a list with one finding of each severity has been scored 49
C1_Witness == oneOfEach(flist) /\ score = 49

\* C2: the score is monotone and bounded: the score of a list with a finding added
\* is at most the score of the list, and every score is an integer in 0..100.
C2_ScoreMonotoneBounded ==
  /\ score <= prevScore
  /\ score \in 0..100
  /\ prevScore \in 0..100

\* a critical finding was added to a list that scored 10, and the result is 0
C2_Witness == prevScore = 10 /\ score = 0 /\ Len(flist) = 5

-----------------------------------------------------------------------------
(* Properties of scoreGrade, checked under SpecGrade                        *)

Grades == <<"F", "D", "C", "B", "A">>

\* the position of a grade from the worst (1) to the best (5)
gradeRank(g) == CHOOSE k \in 1..Len(Grades) : Grades[k] = g

\* the grade boundaries as ranges of scores
gradeOfRange(s) ==
  CASE s >= 90 -> "A"
    [] s \in 80..89 -> "B"
    [] s \in 70..79 -> "C"
    [] s \in 60..69 -> "D"
    [] s < 60 -> "F"

\* C3: scoreGrade is a total function of the score: a score >= 90 gives A, 80..89
\* gives B, 70..79 gives C, 60..69 gives D and a score below 60 gives F; every
\* score in 0..100 has exactly one grade, and the grade never improves when the
\* score decreases.
C3_GradeBoundaries ==
  graded # NoGrade =>
    /\ graded.grade = gradeOfRange(graded.score)
    /\ \E k \in 1..Len(Grades) : Grades[k] = graded.grade
    /\ (prevGraded # NoGrade /\ graded.score <= prevGraded.score)
         => gradeRank(graded.grade) <= gradeRank(prevGraded.grade)

\* 90 was graded A and then 89 was graded B
C3_Witness ==
  /\ prevGraded = [score |-> 90, grade |-> "A"]
  /\ graded = [score |-> 89, grade |-> "B"]

-----------------------------------------------------------------------------
(* Properties of scanPrompt, checked under Spec                             *)

\* the catalog index of the rule with an id
ruleIndex(id) == CHOOSE r \in 1..Len(RuleDefs) : RuleDefs[r].id = id

\* the positions in findings of the findings of rule r
findingsOf(r) == {n \in 1..Len(findings) : findings[n].id = RuleDefs[r].id}

\* some pattern of rule r had a match in the latest scan of text
hitOf(r) == \E p \in 1..Len(hits[r]) : Len(hits[r][p]) > 0

\* the test of rule r was called in the latest scan of text; it returned true
calledOn(r) == \E b \in BOOLEAN : <<r, b>> \in invoked
passedOn(r) == <<r, TRUE>> \in invoked

\* the entry of a finding made by a predicate, as the specification gives it
StructuralEntry == [match |-> <<"(structural analysis)">>, index |-> 0, line |-> 0]

\* C4: for every text, the findings returned by scanPrompt appear in catalog
\* declaration order (not sorted by severity) and each rule id occurs at most once:
\* the finding ids form a subsequence of the catalog's id sequence.
C4_CatalogOrder ==
  /\ \A n \in 1..Len(findings) : \E r \in 1..Len(RuleDefs) : RuleDefs[r].id = findings[n].id
  /\ \A a, b \in 1..Len(findings) :
       a < b => ruleIndex(findings[a].id) < ruleIndex(findings[b].id)

\* a scan returned a high finding before a critical one
C4_Witness ==
  /\ lastOp = "scanPrompt"
  /\ \E a, b \in 1..Len(findings) :
       a < b /\ findings[a].severity = "high" /\ findings[b].severity = "critical"

\* C5: patterns take precedence over the predicate: scanPrompt emits a finding for a
\* rule iff some pattern of the rule has a match, or no pattern matched and the
\* rule has a predicate that returns true; the predicate is invoked only when no
\* pattern matched; and when a pattern matched, the finding's matches are exactly
\* the pattern matches, without the structural sentinel.
C5_PatternPrecedence ==
  scans > 0 =>
    \A r \in 1..Len(RuleDefs) :
      /\ calledOn(r) <=> (r \in rulesWithTest /\ ~ hitOf(r))
      /\ (findingsOf(r) # {}) <=> (hitOf(r) \/ (~ hitOf(r) /\ passedOn(r)))
      /\ hitOf(r) =>
           \A n \in findingsOf(r) :
             /\ \A k \in 1..Len(findings[n].matches) : findings[n].matches[k] # StructuralEntry
             /\ {findings[n].matches[k] : k \in 1..Len(findings[n].matches)}
                  = UNION {{matchDetail(text, hits[r][p][k]) : k \in 1..Len(hits[r][p])}
                             : p \in 1..Len(hits[r])}

\* AGN-001 was triggered by a pattern, so its test was not called, while the test
\* of AGN-002 was called and made a finding
C5_Witness ==
  /\ lastOp = "scanPrompt"
  /\ hitOf(ruleIndex("AGN-001")) /\ ~ calledOn(ruleIndex("AGN-001"))
  /\ findingsOf(ruleIndex("AGN-001")) # {}
  /\ passedOn(ruleIndex("AGN-002")) /\ findingsOf(ruleIndex("AGN-002")) # {}

\* C6: a finding triggered by a rule's predicate carries exactly one match entry,
\* the sentinel with text "(structural analysis)", index 0 and line 0; line 0
\* occurs in no pattern-derived entry, whose line is always >= 1.
C6_Sentinel ==
  scans > 0 =>
    \A n \in 1..Len(findings) :
      /\ passedOn(ruleIndex(findings[n].id)) => findings[n].matches = <<StructuralEntry>>
      /\ ~ passedOn(ruleIndex(findings[n].id)) =>
           \A k \in 1..Len(findings[n].matches) : findings[n].matches[k].line >= 1

\* a scan returned a predicate finding and a pattern finding
C6_Witness ==
  /\ lastOp = "scanPrompt"
  /\ \E a, b \in 1..Len(findings) :
       /\ findings[a].matches = <<StructuralEntry>>
       /\ hitOf(ruleIndex(findings[b].id))
       /\ findings[b].matches[1].line >= 1

\* the entries of the matches of the searches hs[p], hs[p + 1], ..., in this order
RECURSIVE entriesFrom(_, _)
entriesFrom(hs, p) ==
  IF p > Len(hs) THEN <<>>
  ELSE [k \in 1..Len(hs[p]) |-> matchDetail(text, hs[p][k])] \o entriesFrom(hs, p + 1)

\* ms are the occurrences of re in t found from left to right: each is an
\* occurrence, each starts at or after the end of the one before it, and re
\* matches at no offset outside them
leftToRight(re, t, ms) ==
  /\ \A a \in 1..Len(ms) :
       /\ ms[a].index < ms[a].end
       /\ Ends(re, t, ms[a].index) # <<>>
       /\ ms[a].end = Ends(re, t, ms[a].index)[1]
  /\ \A a \in 1..(Len(ms) - 1) : ms[a].end <= ms[a + 1].index
  /\ \A j \in 0..Len(t) :
       (\A a \in 1..Len(ms) : j < ms[a].index \/ j >= ms[a].end) => Ends(re, t, j) = <<>>

\* C7: within one finding, the matches list is the concatenation of the per-pattern
\* match lists in pattern declaration order, and inside each pattern's part the
\* matches are all the non-overlapping occurrences in increasing text offset; the
\* list is not sorted by offset across patterns.
C7_MatchOrder ==
  scans > 0 =>
    \A n \in 1..Len(findings) :
      hitOf(ruleIndex(findings[n].id)) =>
        /\ findings[n].matches = entriesFrom(hits[ruleIndex(findings[n].id)], 1)
        /\ \A p \in 1..Len(hits[ruleIndex(findings[n].id)]) :
             leftToRight(rulePatterns[ruleIndex(findings[n].id)][p], text,
                         hits[ruleIndex(findings[n].id)][p])

\* a finding whose first pattern part holds two matches in increasing offset and
\* whose next part starts at a smaller offset
C7_Witness ==
  /\ lastOp = "scanPrompt"
  /\ \E n \in 1..Len(findings) :
       /\ Len(findings[n].matches) >= 3
       /\ findings[n].matches[1].index < findings[n].matches[2].index
       /\ findings[n].matches[2].index > findings[n].matches[3].index

\* C8: for every pattern match at offset i in the text, the reported line is 1 plus
\* the number of newline characters in text[0:i], for each match separately: a
\* match on the first line has line 1, a match right after the k-th newline k + 1.
C8_LineNumber ==
  scans > 0 =>
    \A n \in 1..Len(findings) :
      hitOf(ruleIndex(findings[n].id)) =>
        \A k \in 1..Len(findings[n].matches) :
          findings[n].matches[k].line
            = 1 + Cardinality({j \in 1..findings[n].matches[k].index : text[j] = "\n"})

\* a match that starts right after the first newline, on line 2
C8_Witness ==
  /\ lastOp = "scanPrompt"
  /\ \E n \in 1..Len(findings) :
       /\ hitOf(ruleIndex(findings[n].id))
       /\ findings[n].matches[1].index >= 1
       /\ text[findings[n].matches[1].index] = "\n"
       /\ findings[n].matches[1].line = 2

\* C9: for a fixed text, two calls of scanPrompt(text), also with scans of other
\* texts before or between them, return identical findings with identical
\* matches: no state an earlier scan left, such as a lastIndex, influences a later
\* one, so every call returns what a call right after construction returns.
C9_Determinism ==
  scans > 0 =>
    /\ findings = firstFindings
    /\ findings = ScanMemo[text].findings

\* the text was scanned at least twice with a scan of another text between, and
\* the result holds a pattern finding
C9_Witness ==
  /\ scans >= 2
  /\ interleaved
  /\ lastOp = "scanPrompt"
  /\ \E n \in 1..Len(findings) : hitOf(ruleIndex(findings[n].id))

-----------------------------------------------------------------------------
(* Properties of getRules, checked under SpecRules                          *)

\* the five metadata properties of every catalog rule, in catalog order
Summaries ==
  [i \in 1..Len(RuleDefs) |->
     [id |-> RuleDefs[i].id, name |-> RuleDefs[i].name, category |-> RuleDefs[i].category,
      severity |-> RuleDefs[i].severity, owasp |-> RuleDefs[i].owasp]]

\* C10: getRules is idempotent and metadata-only: every call, before or after any
\* number of scanPrompt calls, returns the same sequence with one summary per
\* catalog rule in catalog order, each holding only id, name, category, severity
\* and owasp; overwriting a property of a returned summary changes neither the
\* catalog nor later results.
C10_GetRules ==
  /\ rules = RuleDefs
  /\ lastOp = "getRules" =>
       /\ Len(returned) = Len(RuleDefs)
       /\ \A i \in 1..Len(returned) : deref(returned[i], rules) = Summaries[i]
  /\ scans > 0 => findings = firstFindings

\* getRules was called after a scan and after the caller overwrote a property of
\* a summary from an earlier call
C10_Witness == mutated /\ lastOp = "getRules" /\ scans > 0

-----------------------------------------------------------------------------
(* Rule independence, checked under SpecReduced                             *)

\* the outcome of rule r in a findings list: the match lists of the findings
\* with its id, in the order of the list (none when the rule did not trigger)
outcomeOf(r, fs) ==
  LET sel == SelectSeq(fs, LAMBDA f : f.id = RuleDefs[r].id)
  IN [n \in 1..Len(sel) |-> sel[n].matches]

\* C11: rule independence: for every text and every rule R, whether R triggers and
\* which matches its finding holds are the same when any other single rule is
\* removed from the catalog; no rule's outcome depends on another rule's outcome
\* or on its position in the evaluation loop.
C11_RuleIndependence ==
  (scans > 0 /\ removed # 0) =>
    /\ outcomeOf(removed, reducedFindings) = <<>>
    /\ \A r \in 1..Len(RuleDefs) :
         r # removed => outcomeOf(r, reducedFindings) = outcomeOf(r, findings)

\* a rule that triggered in the full scan was left out, and a rule after it in
\* the catalog triggered in both scans on pattern matches
C11_Witness ==
  /\ scans > 0 /\ removed # 0
  /\ outcomeOf(removed, findings) # <<>>
  /\ \E r \in (removed + 1)..Len(RuleDefs) :
       /\ hitOf(r)
       /\ outcomeOf(r, reducedFindings) # <<>>

-----------------------------------------------------------------------------
(* No side effects, checked under SpecFrame                                 *)

\* C12: scanPrompt has no side effects: after any sequence of scans the rule
\* catalog (the rule fields, the pattern lists and every pattern's lastIndex) is
\* as it was before the first scan, and each call returns a fresh findings list:
\* what a caller wrote into an earlier result is in no later result.
C12_NoSideEffects ==
  /\ rules = RuleDefs
  /\ lastIndex = InitialLastIndex
  /\ DOMAIN lastIndex = PatternKeys
  /\ scans > 0 => findings = firstFindings
  /\ (scans > 0 /\ held # <<>>) =>
       /\ findings # held
       /\ \A n \in 1..Len(findings) :
            /\ findings[n].severity # "changed"
            /\ \A k \in 1..Len(findings[n].matches) :
                 findings[n].matches[k].match # <<"changed">>

\* the text was scanned again after a scan of another text and after the caller
\* wrote to the result of an earlier scan
C12_Witness ==
  /\ scans >= 2
  /\ interleaved
  /\ held # <<>>
  /\ lastOp = "scanPrompt"
  /\ \E n \in 1..Len(findings) : hitOf(ruleIndex(findings[n].id))

-----------------------------------------------------------------------------
(* A throwing test, checked under SpecThrow                                 *)

\* some pattern of rule r matches in t, so that its test is not called
patternMatched(r, t) ==
  \E p \in 1..Len(rulePatterns[r]) : Len(PatternMemo[t][<<r, p>>].matches) > 0

\* C13: if a rule's predicate throws while scanPrompt evaluates it, the scan as a
\* whole fails: the error reaches the caller with attribution to the id of the
\* faulting rule, no partial findings list is returned, and the faulting rule is
\* not silently skipped.
C13_ThrowAttributed ==
  (faulty # 0 /\ ~ patternMatched(faulty, text)) =>
    /\ outcome.threw
    /\ ~ outcome.returned
    /\ outcome.findings = <<>>
    /\ "rule" \in DOMAIN outcome.error
    /\ outcome.error.rule = RuleDefs[faulty].id

-----------------------------------------------------------------------------
(* A defective rules array, checked under SpecLoad                          *)

\* two rule objects of cat share an id, or a rule object of cat has neither a
\* pattern nor a test
defective(cat) ==
  \/ \E i, j \in 1..Len(cat) : i # j /\ RuleDefs[cat[i]].id = RuleDefs[cat[j]].id
  \/ \E i \in 1..Len(cat) : Len(rulePatterns[cat[i]]) = 0 /\ cat[i] \notin rulesWithTest

\* C14: a defective catalog (two rules sharing an id, or a rule with neither
\* patterns nor a predicate) is rejected at startup, so no scan ever runs over it.
C14_DefectiveRejected ==
  defective(catalog) => (loadOutcome = "rejected" /\ catalogFindings = <<>>)

-----------------------------------------------------------------------------
(* Empty and whitespace-only input, checked under SpecBlank                 *)

\* scanPrompt(text) has returned its list
scanned == lastOp = "scanPrompt"

\* the finding at position n comes from a test and not from a pattern
predicateFinding(n) ==
  /\ findings[n].matches = <<StructuralEntry>>
  /\ ruleIndex(findings[n].id) \in rulesWithTest
  /\ ~ hitOf(ruleIndex(findings[n].id))

\* the rules whose test compares text.length with a number, and that number
lengthGuard(id) ==
  CASE id = "INJ-003" -> 100
    [] id = "OUT-001" -> 200
    [] id = "ATK-001" -> 2000
    [] OTHER -> 0

LengthGuarded == {"INJ-003", "OUT-001", "ATK-001"}

\* the rules whose test answers true when a phrasing is absent from the text
AbsenceBased == {"INJ-001", "INJ-003", "OUT-001"}

\* C15 (as stated): scanPrompt on an empty or whitespace-only text returns a
\* findings list, every finding in it is a predicate (sentinel-match) finding of
\* an absence-based rule, and no rule with a length guard (INJ-003, OUT-001,
\* ATK-001) and no pattern rule is among them.
C15_NoLengthGuarded ==
  scanned =>
    \A n \in 1..Len(findings) :
      /\ predicateFinding(n)
      /\ findings[n].id \in AbsenceBased
      /\ findings[n].id \notin LengthGuarded

\* C15 (amended): scanPrompt on an empty or whitespace-only text returns a
\* findings list, every finding in it is a predicate (sentinel-match) finding, no
\* pattern rule is among them, a rule with a length guard (INJ-003, OUT-001,
\* ATK-001) is among them only if the text is longer than its guard, and every
\* other rule among them is absence-based.
C15_BlankInput ==
  scanned =>
    \A n \in 1..Len(findings) :
      /\ predicateFinding(n)
      /\ findings[n].id \in LengthGuarded => Len(text) > lengthGuard(findings[n].id)
      /\ findings[n].id \notin LengthGuarded => findings[n].id \in AbsenceBased

\* a whitespace-only text longer than INJ-003's guard has been scanned and
\* INJ-003 is among the findings; so is INJ-001, which has no guard
C15_Witness ==
  /\ scanned
  /\ Len(text) > 100
  /\ findingsOf(ruleIndex("INJ-003")) # {}
  /\ findingsOf(ruleIndex("INJ-001")) # {}

-----------------------------------------------------------------------------
(* The command-line program, checked under SpecCli                          *)

\* the place of a severity in low < medium < high < critical
rank(sev) ==
  CASE sev = "low" -> 1
    [] sev = "medium" -> 2
    [] sev = "high" -> 3
    [] sev = "critical" -> 4

\* the threshold of the run; a --severity value that is not a level acts as low
threshold == IF argsSeverity \in Severities THEN rank(argsSeverity) ELSE rank("low")

\* what scanPrompt returns for the source recorded at position i
scanOf(i) == ScanMemo[sources[i].content].findings

\* the positions in scanOf(i) of the findings at or above threshold th
atOrAbove(i, th) == {n \in 1..Len(scanOf(i)) : rank(scanOf(i)[n].severity) >= th}

\* C16: severity filtering in the CLI keeps exactly the findings whose severity
\* is >= the chosen threshold under the order low < medium < high < critical,
\* preserves their relative order, and drops every finding below the threshold;
\* with the default threshold low, nothing is dropped.
C16_SeverityFilter ==
  \A i \in 1..Len(allResults) :
    /\ Len(allResults[i].findings) = Cardinality(atOrAbove(i, threshold))
    /\ \A j \in 1..Len(allResults[i].findings) :
         \E n \in atOrAbove(i, threshold) :
           /\ allResults[i].findings[j] = scanOf(i)[n]
           /\ Cardinality({k \in atOrAbove(i, threshold) : k < n}) = j - 1
    /\ argsSeverity = "low" => allResults[i].findings = scanOf(i)

\* a source was recorded with a finding dropped before a finding that was kept
C16_Witness ==
  \E i \in 1..Len(allResults) :
    /\ Len(allResults[i].findings) > 0
    /\ \E n \in 1..Len(scanOf(i)) :
         /\ rank(scanOf(i)[n].severity) < threshold
         /\ \E k \in atOrAbove(i, threshold) : k > n

\* a critical or high finding is among the findings recorded for some source
severeKept ==
  \E i \in 1..Len(allResults) : \E n \in 1..Len(allResults[i].findings) :
    allResults[i].findings[n].severity \in {"critical", "high"}

\* C17: when all sources load and are scanned, the exit code is 1 iff at least
\* one critical or high finding survives severity filtering in at least one
\* scanned source, and 0 otherwise; the decision is taken only after every source
\* has been scanned.
C17_ExitCode ==
  /\ cliPc = "exited" =>
       /\ Len(allResults) = Len(sources)
       /\ exitCode = (IF severeKept THEN 1 ELSE 0)
  /\ cliPc = "scan" => exitCode = 0

\* a run of two sources has exited with 1 on a high finding of the second
\* source: nothing critical was kept and the first source kept nothing severe
C17_Witness ==
  /\ cliPc = "exited"
  /\ exitCode = 1
  /\ criticalCount = 0
  /\ Len(sources) = 2
  /\ \A n \in 1..Len(allResults[1].findings) : allResults[1].findings[n].severity = "low"

\* the number of findings of severity sev at or above th in scanOf(i)
keptCount(i, th, sev) ==
  Cardinality({n \in atOrAbove(i, th) : scanOf(i)[n].severity = sev})

\* the score of the findings of scanOf(i) at or above th:
\* max(0, 100 - 25*critical - 15*high - 8*medium - 3*low)
scoreAt(i, th) ==
  IF 100 - 25 * keptCount(i, th, "critical") - 15 * keptCount(i, th, "high")
         - 8 * keptCount(i, th, "medium") - 3 * keptCount(i, th, "low") > 0
  THEN 100 - 25 * keptCount(i, th, "critical") - 15 * keptCount(i, th, "high")
           - 8 * keptCount(i, th, "medium") - 3 * keptCount(i, th, "low")
  ELSE 0

\* C19: for every source the CLI scans, the recorded result holds the
\* severity-filtered findings and a score computed from those filtered findings
\* (not from the unfiltered scan); hence every recorded score is in [0,100], and
\* raising the severity threshold never lowers a source's score.
C19_RecordedScore ==
  \A i \in 1..Len(allResults) :
    /\ \A n \in 1..Len(allResults[i].findings) :
         rank(allResults[i].findings[n].severity) >= threshold
    /\ allResults[i].score = closedForm(allResults[i].findings)
    /\ allResults[i].score \in 0..100
    /\ \A th \in threshold..rank("critical") :
         scoreAt(i, th) >= allResults[i].score

\* a source was recorded with fewer findings than its scan returned and with a
\* score above the score of the unfiltered findings
C19_Witness ==
  \E i \in 1..Len(allResults) :
    /\ Len(allResults[i].findings) < Len(scanOf(i))
    /\ allResults[i].score > closedForm(scanOf(i))

-----------------------------------------------------------------------------
(* Scans side by side, checked under SpecProcs                              *)

\* C18: concurrent scans are independent: for any interleaving of the per-rule
\* and per-pattern steps of two scans of different texts over the shared
\* catalog, with no locking, each scan returns the same findings it would return
\* when run alone.
C18_Independent ==
  \A i \in DOMAIN procs :
    procs[i].phase = "done" => procs[i].findings = ScanMemo[procs[i].text].findings

\* two scans of texts that match the same pattern have both ended, each having
\* taken steps while the other was between its first and last step
C18_Witness ==
  /\ DOMAIN procs = 1..2
  /\ \A i \in 1..2 : procs[i].phase = "done" /\ procs[i].overlapped
  /\ \A i \in 1..2 : \E n \in 1..Len(procs[i].findings) : procs[i].findings[n].id = "AGN-001"

-----------------------------------------------------------------------------
(* AGN-001, checked under Spec                                              *)

\* AGN-001 is among the findings of the latest scan of text
agnTriggered == scanned /\ findingsOf(ruleIndex("AGN-001")) # {}

\* the three conditions of the AGN-001 test hold of text
agnConjunction ==
  AGN001_hasTools(text) /\ AGN001_hasAccess(text) /\ ~ AGN001_hasRestrictions(text)

\* C20 (as stated): AGN-001 triggers on a text only if the text mentions
\* tool/capability vocabulary AND grants broad access phrasing AND lacks any
\* restriction/confirmation phrasing; in particular it never triggers on a text
\* that contains restriction or confirmation phrasing.
C20_OnlyConjunction == agnTriggered => agnConjunction

\* C20 (amended): on a text that matches neither of its two patterns, AGN-001
\* triggers only if the text mentions tool/capability vocabulary AND grants
\* broad access phrasing AND lacks any restriction/confirmation phrasing; in
\* particular, unless one of its patterns matches, it never triggers on a text
\* that contains restriction or confirmation phrasing.
C20_ConjunctiveTest ==
  (agnTriggered /\ ~ hitOf(ruleIndex("AGN-001"))) => agnConjunction

\* AGN-001 was triggered by its test: its finding holds the structural entry
C20_Witness ==
  /\ agnTriggered
  /\ \A n \in findingsOf(ruleIndex("AGN-001")) : findings[n].matches = <<StructuralEntry>>

-----------------------------------------------------------------------------
(* AGN-002, checked under SpecAgency                                        *)

\* AGN-002 is among the findings of the latest scan of text
agn2Triggered == findingsOf(ruleIndex("AGN-002")) # {}

\* text contains a destructive-verb phrase
destructivePhrase == regexTest(AGN002_destructivePattern, text)

-----------------------------------------------------------------------------
(* The length guards, checked under SpecLong                                *)

\* the rule with this id is among the findings of the latest scan of text
triggered(id) == findingsOf(ruleIndex(id)) # {}

\* C22: length-guarded predicate rules respect their thresholds on every text:
\* INJ-003 never triggers when the text has 100 characters or fewer, OUT-001
\* never triggers when it has 200 or fewer, and ATK-001 triggers iff the text is
\* longer than 2000 characters, regardless of content.
C22_LengthGuards ==
  scanned =>
    /\ Len(text) <= 100 => ~ triggered("INJ-003")
    /\ Len(text) <= 200 => ~ triggered("OUT-001")
    /\ triggered("ATK-001") <=> Len(text) > 2000

\* a text of 2001 characters that begins with a phrase has been scanned: ATK-001
\* is among its findings, and so is OUT-001
C22_Witness ==
  /\ scanned
  /\ Len(text) = 2001
  /\ text[1] # "-"
  /\ triggered("ATK-001")
  /\ triggered("OUT-001")

-----------------------------------------------------------------------------
(* The runs of the command-line program over the disks, checked under       *)
(* SpecRun                                                                  *)

\* the run printed a report
reportPrinted == output.format \in {"json", "text"}

\* the scores recorded so far, added up
scoreSum == sumScores(allResults)

\* the command line named no text, no file and no directory
noSourceArgument == ~args.text.given /\ ~args.dir.given /\ args.files = <<>>

\* C23: whenever the CLI reaches report output (formatReport or formatJSON), at
\* least one source has been scanned, so the results list is non-empty and the
\* average score, the sum of the scores divided by the number of results and
\* rounded, is never a division by zero; with no text, file or directory argument
\* the CLI shows help and exits 0 without scanning.
C23_ReportHasSource ==
  /\ reportPrinted =>
       /\ Len(sources) >= 1
       /\ Len(allResults) = Len(sources)
       /\ output.sourcesScanned = Len(allResults)
       /\ output.averageScore # NaN
       /\ output.averageScore \in 0..100
       /\ 2 * Len(allResults) * output.averageScore <= 2 * scoreSum + Len(allResults)
       /\ 2 * scoreSum + Len(allResults) < 2 * Len(allResults) * (output.averageScore + 1)
  /\ (cliPc # "idle" /\ noSourceArgument) =>
       /\ cliPc = "helped"
       /\ output = message("help")
       /\ exitCode = 0
       /\ sources = <<>>
       /\ allResults = <<>>
       /\ lastIndex = InitialLastIndex

\* a run printed the report of two sources whose scores add up to an odd number,
\* so that the average was rounded up
C23_Witness ==
  /\ reportPrinted
  /\ Len(allResults) = 2
  /\ scoreSum % 2 = 1
  /\ 2 * output.averageScore = scoreSum + 1

\* what the paths of the command line name on the disk
badDir == truthy(args.dir) /\ disk[args.dir.value].kind # "directory"

emptyDir ==
  /\ truthy(args.dir)
  /\ disk[args.dir.value].kind = "directory"
  /\ disk[args.dir.value].entries = <<>>

badFile == \E i \in 1..Len(args.files) : disk[args.files[i]].kind # "file"

\* the number of sources of a run whose loads all succeed
sourceCount ==
  (IF truthy(args.text) THEN 1 ELSE 0)
    + (IF truthy(args.dir) THEN Len(disk[args.dir.value].entries) ELSE 0)
    + Len(args.files)

\* no source has been scanned and no report printed
nothingScanned ==
  /\ allResults = <<>>
  /\ totalFindings = 0
  /\ lastIndex = InitialLastIndex
  /\ ~reportPrinted

\* C24: source loading completes before any scan starts, and a load failure ends
\* the run with no source scanned and no report printed, whatever other sources
\* were given: a missing file or a missing or non-directory --dir path exits with
\* code 1, and a directory containing no supported file exits with code 0.
C24_LoadFailure ==
  /\ cliPc \in {"dir", "files"} => nothingScanned
  /\ cliPc \in {"scan", "report", "exited"} =>
       /\ ~badDir /\ ~emptyDir /\ ~badFile
       /\ loadedFiles = Len(args.files)
       /\ Len(sources) = sourceCount
  /\ cliPc = "failed" =>
       /\ nothingScanned
       /\ badDir \/ emptyDir \/ badFile
       /\ output.format = "Directory not found" => badDir /\ exitCode = 1
       /\ output.format = "No supported files found" => emptyDir /\ exitCode = 0
       /\ output.format \in {"File not found", "EISDIR"} =>
            /\ disk[args.files[loadedFiles]].kind # "file"
            /\ exitCode = 1
       /\ output.format \in {"Directory not found", "No supported files found",
                             "File not found", "EISDIR"}
       /\ badDir => output.format = "Directory not found"
       /\ emptyDir => output.format = "No supported files found"

\* a run given a text, a directory and two files has ended with code 1 on the
\* second file, which is missing, after the other three loads succeeded
C24_Witness ==
  /\ cliPc = "failed"
  /\ exitCode = 1
  /\ loadedFiles = 2
  /\ Len(sources) = 3
  /\ disk[args.files[2]].kind = "missing"

====
